---- MODULE Spec2Model ----
(***************************************************************************)
(* PyClipper (src/PyClipper_v1.py, src/PyClipper_Beta_AudioOptions.py):    *)
(* the timestamp parser, the Edit Decision List loaders of both scripts,   *)
(* the partition of the loaded operations into remove and mute ranges, the *)
(* sort-and-merge of ranges, the keep-segment loop, the audio muting and   *)
(* the main script's run from the overlay prompts to the render.           *)
(*                                                                         *)
(* Time is counted in whole seconds.  A text is a sequence of one-character*)
(* strings; the texts fed to the parsers are built from digits, a sign,    *)
(* ':', blanks and letters, so every number a parser returns is an integer.*)
(* An optional value (a dict key that may be absent, a value that may be   *)
(* None) is a sequence of length 0 or 1.                                   *)
(***************************************************************************)
EXTENDS Integers, Sequences, FiniteSets, TLC

VARIABLES
    pc,                 \* position in load_edl_csv / the main script
    video_duration,     \* video.duration
    strict,             \* load_edl_csv's strict parameter
    rows,               \* the data rows of the EDL file, in file order
    row_idx,            \* number of rows the loader's loop has consumed
    operations,         \* load_edl_csv's operations list (edl_operations once returned)
    op_rows,            \* row_idx of the row each element of operations came from
    skipped,            \* row_idx of every "Skipping invalid row" diagnostic, in order
    error_row,          \* row_idx carried by the ValueError of strict mode (0: none)
    marked,             \* the ranges printed as "Marked for removal", in order
    remove_segments,    \* remove_segments of the main script
    all_mute_segments,  \* all_mute_segments of the main script
    keep_segments,      \* keep_segments of the main script
    clips,              \* the (start, end) of every subclip in clips
    has_audio,          \* video.audio is not None
    graphic_timing,     \* graphic_timing: "none" (None), "before" or "after"
    caption_timing,     \* caption_timing: "none" (None), "before" or "after"
    stages,             \* the stages of the run that have been carried out, in order
    audio_mode,         \* the answer at the audio options prompt ("": not asked yet)
    convert_result,     \* convert_mp3_to_wav: "none", "not_mp3", "ok" or "failed"
    use_hw,             \* use_hw of the render section
    gpu_type,           \* gpu_type of the render section ("": not set)
    hw_result,          \* the hardware re-encode: "none", "ok" or "failed"
    edl_mute_segments,  \* edl_mute_segments of the main script
    muted,              \* the ranges printed as "Marked for muting", in order
    merged_segments,    \* merged_segments of the mute merge
    audio_pieces,       \* the pieces mute_audio_segments concatenates, in order
    text_in,            \* the time_str passed to parse_timestamp_string
    dur_in,             \* the video_duration passed to it (optional value)
    parsed,             \* the outcome of that call (optional value)
    temp_wav,           \* the converted temporary WAV: "none", "exists" or "deleted"
    temp_mp4,           \* <base>_EDIT_TEMP.mp4: "none", "exists", "deleted" or "renamed"
    out_audio,          \* video_with_audio.audio: "unset", "none", "original",
                        \* "soundtrack", "mix" or "silence"
    add_audio,          \* Beta, "add an additional audio track?": "", "y" or "n"
    output_path,        \* output_path (optional value: <<>> is None)
    existing,           \* the paths os.path.exists is true for
    confirmed,          \* the path check_overwrite asked about last was answered y
    written,            \* the path the final video was written to (optional value)
    resolved,           \* what the overwrite prompt resolved output_path to
    script,             \* "v1" or "beta": which of the two scripts runs
    fades,              \* fades of the fade prompt loop
    fade_pieces,        \* the pieces build_audio_with_fades_and_padding concatenates
    out_pieces          \* the audio of the concatenated video, as pieces of the source

loadVars == <<strict, rows, row_idx, operations, op_rows, skipped, error_row>>
editVars == <<marked, remove_segments, all_mute_segments, keep_segments, clips>>
choiceVars == <<graphic_timing, caption_timing, audio_mode, convert_result, use_hw,
                gpu_type, hw_result>>
runVars == <<stages, choiceVars>>
muteVars == <<edl_mute_segments, muted, merged_segments, audio_pieces>>
parseVars == <<text_in, dur_in, parsed>>
tempVars == <<temp_wav, temp_mp4, out_audio, add_audio>>
pathVars == <<output_path, existing, confirmed, written, resolved, script>>
trackVars == <<fades, fade_pieces, out_pieces>>
vars == <<pc, video_duration, has_audio, loadVars, editVars, runVars, muteVars, parseVars,
          tempVars, pathVars, trackVars>>

\* ---------------------------------------------------------------- bounds
MaxRows == 3            \* rows in an EDL file
MaxLoadDuration == 2    \* video.duration of the runs that load an EDL
MaxDuration == 4        \* video.duration of the runs that prompt for segments
MaxSegs == 3            \* segments accepted at the removal prompt
MaxMutes == 1           \* segments accepted at the mute prompt
MaxRunDuration == 2     \* video.duration of the runs followed to the render
MaxRunSegs == 1         \* segments accepted at the removal prompt of those runs
MaxMuteRows == 2        \* rows in an EDL file of mute_audio rows
MaxMuteDuration == 2    \* video.duration of the runs that load mute_audio rows
MaxBetaRows == 2        \* rows in an EDL file of the Beta script
MaxTextLen == 5         \* characters of a text passed to parse_timestamp_string
MaxParseDuration == 2   \* video_duration passed to parse_timestamp_string
MaxNewSuffix == 1       \* "_NEW" suffixes a file name carries
MaxFades == 2           \* fades accepted by the fade prompt
MaxFadeDuration == 3    \* video_duration at the fade prompt
MaxKeepRows == 2        \* rows of an EDL file of remove rows
MaxKeepDuration == 2    \* video_duration when the keep ranges are built

\* ---------------------------------------------------------------- texts
Upper == <<"A","B","C","D","E","F","G","H","I","J","K","L","M",
           "N","O","P","Q","R","S","T","U","V","W","X","Y","Z">>
Lower == <<"a","b","c","d","e","f","g","h","i","j","k","l","m",
           "n","o","p","q","r","s","t","u","v","w","x","y","z">>
Digits == <<"0","1","2","3","4","5","6","7","8","9">>

TxtEmpty == <<>>
TxtStart == <<"s","t","a","r","t">>
TxtEnd == <<"e","n","d">>
TxtFromStart == <<"f","r","o","m"," ","s","t","a","r","t">>
TxtUntilEnd == <<"u","n","t","i","l"," ","e","n","d">>
TxtX == <<"x">>
TxtNegOne == <<"-","1">>
TxtTwo == <<"2">>
TxtOneSec == <<"0",":","0","1">>
ActRemove == <<"r","e","m","o","v","e">>
ActKeep == <<"k","e","e","p">>
ActKeepRaw == <<"K","e","e","p"," ">>
ActMute == <<"m","u","t","e","_","a","u","d","i","o">>
ActInsert == <<"i","n","s","e","r","t">>
TxtZero == <<"0">>
TxtA == <<"a">>
TxtBlank == <<" ">>

\* str.lower() on one character
LowerChar(c) ==
    IF \E i \in 1..Len(Upper) : Upper[i] = c
    THEN Lower[CHOOSE i \in 1..Len(Upper) : Upper[i] = c]
    ELSE c

\* str.lower()
LowerText(s) == [i \in 1..Len(s) |-> LowerChar(s[i])]

RECURSIVE LStrip(_)
LStrip(s) == IF s # <<>> /\ Head(s) = " " THEN LStrip(Tail(s)) ELSE s

RECURSIVE RStrip(_)
RStrip(s) ==
    IF s # <<>> /\ s[Len(s)] = " " THEN RStrip(SubSeq(s, 1, Len(s) - 1)) ELSE s

\* str.strip()
Strip(s) == RStrip(LStrip(s))

\* ':' in s
HasColon(s) == \E i \in 1..Len(s) : s[i] = ":"

\* s.split(':')
RECURSIVE SplitColon(_)
SplitColon(s) ==
    IF ~HasColon(s) THEN <<s>>
    ELSE LET i == CHOOSE k \in 1..Len(s) :
                      s[k] = ":" /\ \A j \in 1..(k - 1) : s[j] # ":"
         IN  <<SubSeq(s, 1, i - 1)>> \o SplitColon(SubSeq(s, i + 1, Len(s)))

IsDigit(c) == \E i \in 1..Len(Digits) : Digits[i] = c
DigitVal(c) == (CHOOSE i \in 1..Len(Digits) : Digits[i] = c) - 1

RECURSIVE DigitsVal(_)
DigitsVal(s) ==
    IF s = <<>> THEN 0
    ELSE DigitsVal(SubSeq(s, 1, Len(s) - 1)) * 10 + DigitVal(s[Len(s)])

\* float(s) accepts s: blanks around an optionally signed run of digits
IsFloat(s) ==
    LET t == Strip(s)
        u == IF t # <<>> /\ Head(t) \in {"-", "+"} THEN Tail(t) ELSE t
    IN  u # <<>> /\ \A i \in 1..Len(u) : IsDigit(u[i])

\* float(s), for a text float() accepts
FloatVal(s) ==
    LET t == Strip(s)
    IN  IF t # <<>> /\ Head(t) = "-" THEN 0 - DigitsVal(Tail(t))
        ELSE IF t # <<>> /\ Head(t) = "+" THEN DigitsVal(Tail(t))
        ELSE DigitsVal(t)

\* The outcome of a parser call: a ValueError, or a returned optional value.
Raise == [raised |-> TRUE, val |-> <<>>]
Return(v) == [raised |-> FALSE, val |-> v]

\* parse_timestamp_string reading two parts as hours and minutes
parse_timestamp_string_hm(s, vd) ==
    LET t == LowerText(Strip(s))
    IN  IF t = TxtStart THEN Return(<<0>>)
        ELSE IF t = TxtEnd THEN Return(vd)
        ELSE IF HasColon(t)
        THEN LET parts == SplitColon(t)
             IN  IF \E i \in 1..Len(parts) : ~IsFloat(parts[i]) THEN Raise
                 ELSE IF Len(parts) = 2
                 THEN Return(<<FloatVal(parts[1]) * 3600 + FloatVal(parts[2]) * 60>>)
                 ELSE IF Len(parts) = 3
                 THEN Return(<<FloatVal(parts[1]) * 3600 + FloatVal(parts[2]) * 60
                               + FloatVal(parts[3])>>)
                 ELSE Raise
        ELSE IF IsFloat(t) THEN Return(<<FloatVal(t)>>)
        ELSE Raise

\* parse_timestamp_string(s, video_duration); vd is <<>> for None
parse_timestamp_string(s, vd) ==
    LET t == LowerText(Strip(s))
    IN  IF t = TxtStart THEN Return(<<0>>)
        ELSE IF t = TxtEnd THEN Return(vd)
        ELSE IF HasColon(t)
        THEN LET parts == SplitColon(t)
             IN  IF \E i \in 1..Len(parts) : ~IsFloat(parts[i]) THEN Raise
                 ELSE IF Len(parts) = 2
                 THEN Return(<<FloatVal(parts[1]) * 60 + FloatVal(parts[2])>>)
                 ELSE IF Len(parts) = 3
                 THEN Return(<<FloatVal(parts[1]) * 3600 + FloatVal(parts[2]) * 60
                               + FloatVal(parts[3])>>)
                 ELSE Raise
        ELSE IF IsFloat(t) THEN Return(<<FloatVal(t)>>)
        ELSE Raise

\* a call parse_timestamp_string(text_in, dur_in) and its outcome
ParseTimestamp ==
    /\ pc = "parse"
    /\ parsed' = <<parse_timestamp_string(text_in, dur_in)>>
    /\ pc' = "parsed"
    /\ UNCHANGED <<video_duration, has_audio, loadVars, editVars, runVars, muteVars,
                   text_in, dur_in,
                   tempVars, pathVars, trackVars>>

\* ---------------------------------------------------------------- load_edl_csv
\* RangeValid without the upper limit: not (0 <= record_in < record_out)
RangeValidNoLimit(rin, rout, d) == 0 <= rin /\ rin < rout

\* not (0 <= record_in < record_out <= video_duration) is a row failure
RangeValid(rin, rout, d) == 0 <= rin /\ rin < rout /\ rout <= d

\* the actions whose record_in/record_out the loader validates
ValidatedActions == {ActRemove, ActKeep}

\* op.get('record_in') is None or op.get('record_out') is None
MissingField(rin, rout) == rin = <<>> \/ rout = <<>>

\* One pass of the loop body over row: the ValueError it ends in, or the op
\* it appends.
RowResult(row, d) ==
    LET action == LowerText(Strip(row.action))
        pin == IF row.record_in # <<>>
               THEN parse_timestamp_string(row.record_in, <<d>>) ELSE Return(<<>>)
        pout == IF row.record_out # <<>>
                THEN parse_timestamp_string(row.record_out, <<d>>) ELSE Return(<<>>)
        op == [action |-> action, record_in |-> pin.val, record_out |-> pout.val]
    IN  IF pin.raised \/ pout.raised THEN [raised |-> TRUE, op |-> op]
        ELSE IF action \in ValidatedActions /\ MissingField(pin.val, pout.val)
        THEN [raised |-> TRUE, op |-> op]
        ELSE IF action \in ValidatedActions
                /\ ~RangeValid(pin.val[1], pout.val[1], d)
        THEN [raised |-> TRUE, op |-> op]
        ELSE [raised |-> FALSE, op |-> op]

\* AppendOp putting the op first: operations.insert(0, op)
InsertOpFirst(ops, op) == <<op>> \o ops

\* operations.append(op)
AppendOp(ops, op) == Append(ops, op)

\* enumerate(reader, 1): the index of the row after n consumed rows
NextRowIdx(n) == n + 1

\* ErrorRowIdx counting from 0: enumerate(reader)
ErrorRowIdxFromZero(idx) == idx - 1

\* the row index the strict-mode ValueError carries
ErrorRowIdx(idx) == idx

\* the row index the lenient-mode diagnostic prints
SkipRowIdx(idx) == idx

\* Reraises whatever strict is: the except clause always re-raises
ReraisesAlways(s) == TRUE

\* the except clause re-raises
Reraises(s) == s

\* The row of the file the loop reads next
NextRow == rows[row_idx + 1]

\* loop body, no exception: the row's op is appended
LoadRowAppend ==
    /\ pc = "load"
    /\ row_idx < Len(rows)
    /\ ~RowResult(NextRow, video_duration).raised
    /\ row_idx' = NextRowIdx(row_idx)
    /\ operations' = AppendOp(operations, RowResult(NextRow, video_duration).op)
    /\ op_rows' = Append(op_rows, row_idx')
    /\ UNCHANGED <<runVars, muteVars, parseVars, pc, video_duration, has_audio, strict,
                   rows, skipped, error_row, editVars,
                   tempVars, pathVars, trackVars>>

\* loop body, exception with strict false: the diagnostic is printed
LoadRowSkip ==
    /\ pc = "load"
    /\ row_idx < Len(rows)
    /\ RowResult(NextRow, video_duration).raised
    /\ ~Reraises(strict)
    /\ row_idx' = NextRowIdx(row_idx)
    /\ skipped' = Append(skipped, SkipRowIdx(row_idx'))
    /\ UNCHANGED <<runVars, muteVars, parseVars, pc, video_duration, has_audio, strict,
                   rows, operations, op_rows, error_row, editVars,
                   tempVars, pathVars, trackVars>>

\* loop body, exception with strict true: ValueError("Error in row ...")
LoadRowRaise ==
    /\ pc = "load"
    /\ row_idx < Len(rows)
    /\ RowResult(NextRow, video_duration).raised
    /\ Reraises(strict)
    /\ row_idx' = NextRowIdx(row_idx)
    /\ error_row' = ErrorRowIdx(row_idx')
    /\ pc' = "raised"
    /\ UNCHANGED <<runVars, muteVars, parseVars, video_duration, has_audio, strict,
                   rows, operations, op_rows, skipped, editVars,
                   tempVars, pathVars, trackVars>>

\* the reader is exhausted: return operations
LoadReturn ==
    /\ pc = "load"
    /\ row_idx = Len(rows)
    /\ pc' = "loaded"
    /\ UNCHANGED <<runVars, muteVars, parseVars, video_duration, has_audio, loadVars,
                   editVars,
                   tempVars, pathVars, trackVars>>

\* ---------------------------------------------------------------- load_edl_csv (Beta)
\* row.get(key, default): the cell of the column, or default without the column
RowGet(cell, default) == IF cell = <<>> THEN default ELSE cell[1]

\* float(row.get(key, '0') or 0)
FloatOrZero(cell) ==
    LET v == RowGet(cell, TxtZero)
    IN  IF v = <<>> THEN Return(<<0>>)
        ELSE IF IsFloat(v) THEN Return(<<FloatVal(v)>>)
        ELSE Raise

\* SourceRangeInvalid with >: equal source_in and source_out pass
SourceRangeInvalidStrict(sin, sout) == sin > sout

\* if op['source_in'] >= op['source_out']: raise
SourceRangeInvalid(sin, sout) == sin >= sout

\* an op of the Beta loader; a key the loop body has not set is <<>>
BetaOp(action, rin, rout, src, sin, sout, tin, tout) ==
    [action |-> action, record_in |-> rin, record_out |-> rout, insert_source |-> src,
     source_in |-> sin, source_out |-> sout, transition_in_duration |-> tin,
     transition_out_duration |-> tout]

\* the insert branch of the loop body, after record_in/record_out are parsed
InsertResult(row, rin, rout) ==
    LET src == Strip(row.insert_source)
        sin == parse_timestamp_string(RowGet(row.source_in, TxtZero), <<>>)
        sout == parse_timestamp_string(RowGet(row.source_out, TxtEmpty), <<>>)
        tin == FloatOrZero(row.transition_in_duration)
        tout == FloatOrZero(row.transition_out_duration)
        op == BetaOp(ActInsert, rin, rout, <<src>>, sin.val, sout.val, tin.val, tout.val)
    IN  IF src = <<>> THEN [raised |-> TRUE, op |-> op]
        ELSE IF sin.raised \/ sout.raised THEN [raised |-> TRUE, op |-> op]
        ELSE IF sout.val = <<>> \/ sin.val = <<>> THEN [raised |-> TRUE, op |-> op]
        ELSE IF SourceRangeInvalid(sin.val[1], sout.val[1])
        THEN [raised |-> TRUE, op |-> op]
        ELSE IF rin = <<>> THEN [raised |-> TRUE, op |-> op]
        ELSE IF tin.raised \/ tout.raised THEN [raised |-> TRUE, op |-> op]
        ELSE [raised |-> FALSE, op |-> op]

\* One pass of the Beta loop body over row: the exception it ends in, or the
\* op it appends.
BetaRowResult(row, d) ==
    LET action == LowerText(Strip(row.action))
        pin == IF row.record_in # <<>>
               THEN parse_timestamp_string(row.record_in, <<d>>) ELSE Return(<<>>)
        pout == IF row.record_out # <<>>
                THEN parse_timestamp_string(row.record_out, <<d>>) ELSE Return(<<>>)
        op == BetaOp(action, pin.val, pout.val, <<>>, <<>>, <<>>, <<>>, <<>>)
    IN  IF pin.raised \/ pout.raised THEN [raised |-> TRUE, op |-> op]
        ELSE IF action \in ValidatedActions /\ MissingField(pin.val, pout.val)
        THEN [raised |-> TRUE, op |-> op]
        ELSE IF action \in ValidatedActions
                /\ ~RangeValid(pin.val[1], pout.val[1], d)
        THEN [raised |-> TRUE, op |-> op]
        ELSE IF action = ActInsert THEN InsertResult(row, pin.val, pout.val)
        ELSE [raised |-> FALSE, op |-> op]

\* Beta loop body, no exception: the row's op is appended
BetaLoadRowAppend ==
    /\ pc = "load"
    /\ row_idx < Len(rows)
    /\ ~BetaRowResult(NextRow, video_duration).raised
    /\ row_idx' = NextRowIdx(row_idx)
    /\ operations' = AppendOp(operations, BetaRowResult(NextRow, video_duration).op)
    /\ op_rows' = Append(op_rows, row_idx')
    /\ UNCHANGED <<pc, video_duration, has_audio, strict, rows, skipped, error_row,
                   editVars, runVars, muteVars, parseVars,
                   tempVars, pathVars, trackVars>>

\* Beta loop body, exception with strict false: the diagnostic is printed
BetaLoadRowSkip ==
    /\ pc = "load"
    /\ row_idx < Len(rows)
    /\ BetaRowResult(NextRow, video_duration).raised
    /\ ~Reraises(strict)
    /\ row_idx' = NextRowIdx(row_idx)
    /\ skipped' = Append(skipped, SkipRowIdx(row_idx'))
    /\ UNCHANGED <<pc, video_duration, has_audio, strict, rows, operations, op_rows,
                   error_row, editVars, runVars, muteVars, parseVars,
                   tempVars, pathVars, trackVars>>

\* Beta loop body, exception with strict true: ValueError("Error in row ...")
BetaLoadRowRaise ==
    /\ pc = "load"
    /\ row_idx < Len(rows)
    /\ BetaRowResult(NextRow, video_duration).raised
    /\ Reraises(strict)
    /\ row_idx' = NextRowIdx(row_idx)
    /\ error_row' = ErrorRowIdx(row_idx')
    /\ pc' = "raised"
    /\ UNCHANGED <<video_duration, has_audio, strict, rows, operations, op_rows,
                   skipped, editVars, runVars, muteVars, parseVars,
                   tempVars, pathVars, trackVars>>

\* ---------------------------------------------------------------- segment algebra
Max(a, b) == IF a >= b THEN a ELSE b

\* tuple comparison of list.sort(): by start, then by end
SegLess(a, b) == a[1] < b[1] \/ (a[1] = b[1] /\ a[2] < b[2])

RECURSIVE InsertSeg(_, _)
InsertSeg(sorted, seg) ==
    IF sorted = <<>> THEN <<seg>>
    ELSE IF SegLess(seg, Head(sorted)) THEN <<seg>> \o sorted
    ELSE <<Head(sorted)>> \o InsertSeg(Tail(sorted), seg)

\* segs.sort()
RECURSIVE SortSegs(_)
SortSegs(segs) ==
    IF segs = <<>> THEN <<>>
    ELSE InsertSeg(SortSegs(SubSeq(segs, 1, Len(segs) - 1)), segs[Len(segs)])

\* StartsNewSegment with >=: touching ranges stay apart
StartsNewSegmentTouching(seg, last) == seg[1] >= last[2]

\* remove-merge: seg[0] > merged[-1][1] opens a new segment
StartsNewSegment(seg, last) == seg[1] > last[2]

\* ExtendedEnd without max: merged[-1][1] = seg[1]
ExtendedEndNoMax(last, seg) == seg[2]

\* remove-merge: merged[-1][1] = max(merged[-1][1], seg[1])
ExtendedEnd(last, seg) == Max(last[2], seg[2])

RECURSIVE MergeRemoveFrom(_, _)
MergeRemoveFrom(merged, rest) ==
    IF rest = <<>> THEN merged
    ELSE LET seg == Head(rest)
             n == Len(merged)
         IN  IF merged = <<>> \/ StartsNewSegment(seg, merged[n])
             THEN MergeRemoveFrom(Append(merged, seg), Tail(rest))
             ELSE MergeRemoveFrom(
                      [merged EXCEPT ![n][2] = ExtendedEnd(merged[n], seg)],
                      Tail(rest))

\* MergeRemoveSegs comparing each range with the range before it in the
\* sorted list instead of with merged[-1]
RECURSIVE MergeByPrevious(_, _, _)
MergeByPrevious(merged, prev, rest) ==
    IF rest = <<>> THEN merged
    ELSE LET seg == Head(rest)
             n == Len(merged)
         IN  IF merged = <<>> \/ seg[1] > prev[2]
             THEN MergeByPrevious(Append(merged, seg), seg, Tail(rest))
             ELSE MergeByPrevious(
                      [merged EXCEPT ![n][2] = Max(merged[n][2], seg[2])],
                      seg, Tail(rest))

MergeRemoveSegsByPrevious(segs) == MergeByPrevious(<<>>, <<0, 0>>, segs)

\* the loop over the sorted remove_segments that builds merged
MergeRemoveSegs(segs) == MergeRemoveFrom(<<>>, segs)

\* MuteStartsNewSegment with >=: touching ranges stay apart
MuteStartsNewSegmentTouching(seg, last) == seg[1] >= last[2]

\* mute-merge: seg[0] > merged_segments[-1][1] opens a new segment
MuteStartsNewSegment(seg, last) == seg[1] > last[2]

\* MuteMergedSegment without max: (merged_segments[-1][0], seg[1])
MuteMergedSegmentNoMax(last, seg) == <<last[1], seg[2]>>

\* mute-merge: (merged_segments[-1][0], max(merged_segments[-1][1], seg[1]))
MuteMergedSegment(last, seg) == <<last[1], Max(last[2], seg[2])>>

RECURSIVE MergeMuteFrom(_, _)
MergeMuteFrom(merged, rest) ==
    IF rest = <<>> THEN merged
    ELSE LET seg == Head(rest)
             n == Len(merged)
         IN  IF merged = <<>> \/ MuteStartsNewSegment(seg, merged[n])
             THEN MergeMuteFrom(Append(merged, seg), Tail(rest))
             ELSE MergeMuteFrom(
                      SubSeq(merged, 1, n - 1) \o <<MuteMergedSegment(merged[n], seg)>>,
                      Tail(rest))

\* the loop over the sorted all_mute_segments that builds merged_segments
MergeMuteSegs(segs) == MergeMuteFrom(<<>>, segs)

\* the keep-segment loop: state is <<keep_segments, last_end>>
RECURSIVE KeepFrom(_, _, _)
KeepFrom(keep, last_end, rest) ==
    IF rest = <<>> THEN <<keep, last_end>>
    ELSE LET seg == Head(rest)
         IN  KeepFrom(IF last_end < seg[1] THEN Append(keep, <<last_end, seg[1]>>)
                      ELSE keep,
                      seg[2], Tail(rest))

\* KeepTail without the test last_end < video.duration
KeepTailAlways(keep, last_end, d) == Append(keep, <<last_end, d>>)

\* KeepTail without the range after the last removal
KeepTailDropped(keep, last_end, d) == keep

\* the range kept after the last removal, if any
KeepTail(keep, last_end, d) ==
    IF last_end < d THEN Append(keep, <<last_end, d>>) ELSE keep

\* keep_segments as built from the merged remove_segments
KeepSegments(removes, d) ==
    LET r == KeepFrom(<<>>, 0, removes)
    IN  KeepTail(r[1], r[2], d)

\* [... for start, end in keep_segments if end > start]
ClipsOf(keep) == SelectSeq(keep, LAMBDA k : k[2] > k[1])

\* ---------------------------------------------------------------- main script
\* OpsOf taking the keep ops as remove ops
OpsOfKeepAsRemove(ops, act) ==
    SelectSeq(ops, LAMBDA op : op.action = act \/ (act = ActRemove /\ op.action = ActKeep))

\* OpsOf taking an op without action as one of the action asked for
OpsOfLoose(ops, act) == SelectSeq(ops, LAMBDA op : op.action \in {act, TxtEmpty})

\* [(op['record_in'], op['record_out']) for op in ops if op['action'] == act]
OpsOf(ops, act) == SelectSeq(ops, LAMBDA op : op.action = act)

\* op['record_in'] or op['record_out'] raises KeyError
KeyMissing(op) == op.record_in = <<>> \/ op.record_out = <<>>

RangesOf(ops) == [i \in 1..Len(ops) |-> <<ops[i].record_in[1], ops[i].record_out[1]>>]

\* remove_segments = [... if op['action'] == 'remove'] on the loader's result
ExtractRemove ==
    /\ pc = "loaded"
    /\ LET ops == OpsOf(operations, ActRemove)
       IN  IF \E i \in 1..Len(ops) : KeyMissing(ops[i])
           THEN pc' = "crashed" /\ UNCHANGED <<marked, remove_segments>>
           ELSE /\ remove_segments' = RangesOf(ops)
                /\ marked' = RangesOf(ops)
                /\ pc' = "merge"
    /\ UNCHANGED <<runVars, muteVars, parseVars, video_duration, has_audio, loadVars,
                   all_mute_segments, keep_segments, clips,
                   tempVars, pathVars, trackVars>>

\* remove_segments.sort(); merge loop; remove_segments = merged
SortMergeRemove ==
    /\ pc = "merge"
    /\ remove_segments' = MergeRemoveSegs(SortSegs(remove_segments))
    /\ pc' = "edl_mute"
    /\ UNCHANGED <<runVars, muteVars, parseVars, video_duration, has_audio, loadVars,
                   marked, all_mute_segments, keep_segments, clips,
                   tempVars, pathVars, trackVars>>

\* all_mute_segments = []; if edl_operations: extend with the mute_audio ranges
ExtractMute ==
    /\ pc = "edl_mute"
    /\ LET ops == OpsOf(operations, ActMute)
       IN  IF \E i \in 1..Len(ops) : KeyMissing(ops[i])
           THEN pc' = "crashed" /\ UNCHANGED <<all_mute_segments, edl_mute_segments>>
           ELSE /\ edl_mute_segments' = RangesOf(ops)
                /\ all_mute_segments' = RangesOf(ops)
                /\ pc' = "mute_prompt"
    /\ UNCHANGED <<runVars, parseVars, muted, merged_segments, audio_pieces,
                   video_duration, has_audio, loadVars, marked, remove_segments,
                   keep_segments, clips,
                   tempVars, pathVars, trackVars>>

\* get_timestamp(prompt, video_duration, default): the value returned for the
\* answer text, or no value when the answer makes it print "Invalid timestamp"
\* and prompt again
get_timestamp(text, d, default) ==
    LET t == LowerText(Strip(text))
    IN  IF t = <<>> THEN Return(<<default>>)
        ELSE IF t \in {TxtStart, TxtFromStart} THEN Return(<<0>>)
        ELSE IF t \in {TxtEnd, TxtUntilEnd} THEN Return(<<d>>)
        ELSE IF HasColon(t)
        THEN LET parts == SplitColon(t)
             IN  IF Len(parts) = 2 /\ IsFloat(parts[1]) /\ IsFloat(parts[2])
                 THEN Return(<<FloatVal(parts[1]) * 60 + FloatVal(parts[2])>>)
                 ELSE IF Len(parts) = 3 /\ IsFloat(parts[1]) /\ IsFloat(parts[2])
                         /\ IsFloat(parts[3])
                 THEN Return(<<FloatVal(parts[1]) * 3600 + FloatVal(parts[2]) * 60
                               + FloatVal(parts[3])>>)
                 ELSE Raise
        ELSE IF IsFloat(t) THEN Return(<<FloatVal(t)>>)
        ELSE Raise

\* the answers typed at a timestamp prompt
PromptTexts(d) ==
    {<<Digits[n + 1]>> : n \in 0..(d + 1)}
        \cup {TxtEmpty, TxtStart, TxtEnd, TxtUntilEnd, TxtOneSec, TxtNegOne, TxtX}

\* start >= end or start < 0 or end > video.duration
InvalidSegment(start, end, d) == start >= end \/ start < 0 \/ end > d

\* the values get_timestamp returns for the answers of PromptTexts
PromptValues(d) ==
    {r.val[1] : r \in {x \in {get_timestamp(t, d, 0) : t \in PromptTexts(d)} :
                         ~x.raised}}

\* "Remove a segment?" answered y, and a segment that passes the check
PromptRemoveAccept ==
    /\ pc = "remove_prompt"
    /\ Len(remove_segments) < MaxSegs
    /\ \E start, end \in PromptValues(video_duration) :
         /\ ~InvalidSegment(start, end, video_duration)
         /\ remove_segments' = Append(remove_segments, <<start, end>>)
         /\ marked' = Append(marked, <<start, end>>)
    /\ UNCHANGED <<runVars, muteVars, parseVars, pc, video_duration, has_audio,
                   loadVars, all_mute_segments, keep_segments, clips,
                   tempVars, pathVars, trackVars>>

\* "Remove a segment?" answered y, and a segment that fails the check: continue
PromptRemoveReject ==
    /\ pc = "remove_prompt"
    /\ \E start, end \in PromptValues(video_duration) :
         InvalidSegment(start, end, video_duration)
    /\ UNCHANGED vars

\* "Remove a segment?" answered anything but y: break
PromptRemoveDone ==
    /\ pc = "remove_prompt"
    /\ pc' = "merge"
    /\ UNCHANGED <<runVars, muteVars, parseVars, video_duration, has_audio, loadVars,
                   editVars,
                   tempVars, pathVars, trackVars>>

\* no audio track: no mute prompt, and the mute-merge is skipped
SkipMuteNoAudio ==
    /\ pc = "mute_prompt"
    /\ ~has_audio
    /\ pc' = "build_keep"
    /\ UNCHANGED <<runVars, muteVars, parseVars, video_duration, has_audio, loadVars,
                   editVars,
                   tempVars, pathVars, trackVars>>

NoVideoLeftNever(keep) == FALSE

\* if not keep_segments: "No video left after removals!", exit(1)
NoVideoLeft(keep) == keep = <<>>

\* the keep-segment loop and the "No video left after removals!" exit
BuildKeep ==
    /\ pc = "build_keep"
    /\ keep_segments' = KeepSegments(remove_segments, video_duration)
    /\ stages' = Append(stages, "keep")
    /\ pc' = IF NoVideoLeft(keep_segments') THEN "exit_no_video" ELSE "make_clips"
    /\ UNCHANGED <<choiceVars, muteVars, parseVars, video_duration, has_audio,
                   loadVars, marked, remove_segments, all_mute_segments, clips,
                   tempVars, pathVars, trackVars>>

\* the subclips and the "No valid segments to keep after removal!" exit
MakeClips ==
    /\ pc = "make_clips"
    /\ clips' = ClipsOf(keep_segments)
    /\ pc' = IF clips' = <<>> THEN "exit_no_clips" ELSE "concatenate"
    /\ UNCHANGED <<runVars, muteVars, parseVars, video_duration, has_audio, loadVars,
                   marked, remove_segments, all_mute_segments, keep_segments,
                   tempVars, pathVars, trackVars>>

\* ---------------------------------------------------------------- audio muting
\* "Mute an audio segment?" answered y, and a segment that passes the check
PromptMuteAccept ==
    /\ pc = "mute_prompt"
    /\ has_audio
    /\ Len(muted) < MaxMutes
    /\ \E start, end \in PromptValues(video_duration) :
         /\ ~InvalidSegment(start, end, video_duration)
         /\ all_mute_segments' = Append(all_mute_segments, <<start, end>>)
         /\ muted' = Append(muted, <<start, end>>)
    /\ UNCHANGED <<pc, video_duration, has_audio, loadVars, marked, remove_segments,
                   keep_segments, clips, runVars, parseVars, edl_mute_segments,
                   merged_segments, audio_pieces,
                   tempVars, pathVars, trackVars>>

\* "Mute an audio segment?" answered y, and a segment that fails the check: continue
PromptMuteReject ==
    /\ pc = "mute_prompt"
    /\ has_audio
    /\ \E start, end \in PromptValues(video_duration) :
         InvalidSegment(start, end, video_duration)
    /\ UNCHANGED vars

\* "Mute an audio segment?" answered anything but y: break
PromptMuteDone ==
    /\ pc = "mute_prompt"
    /\ has_audio
    /\ pc' = "mute_merge"
    /\ UNCHANGED <<video_duration, has_audio, loadVars, editVars, runVars, muteVars,
                   parseVars,
                   tempVars, pathVars, trackVars>>

\* a piece of the track mute_audio_segments builds: original audio or silence
Piece(kind, start, end) == [kind |-> kind, start |-> start, end |-> end]

\* mute_audio_segments' loop over sorted(mute_segments): state is
\* <<segments, last_end>>
RECURSIVE MutePiecesFrom(_, _, _)
MutePiecesFrom(pieces, last_end, rest) ==
    IF rest = <<>> THEN <<pieces, last_end>>
    ELSE LET seg == Head(rest)
             before == IF last_end < seg[1]
                       THEN <<Piece("audio", last_end, seg[1])>> ELSE <<>>
         IN  MutePiecesFrom(pieces \o before \o <<Piece("silence", seg[1], seg[2])>>,
                            seg[2], Tail(rest))

\* the list mute_audio_segments passes to concatenate_audioclips
MutePieces(segs, total_duration) ==
    LET r == MutePiecesFrom(<<>>, 0, SortSegs(segs))
    IN  IF r[2] < total_duration
        THEN Append(r[1], Piece("audio", r[2], total_duration)) ELSE r[1]

\* np.zeros((int((end - start) * fps), 2)) raises ValueError for a negative length
SilenceFails(segs) == \E i \in 1..Len(segs) : segs[i][2] < segs[i][1]

\* if all_mute_segments and video.audio is not None: sort, merge, and
\* mute_audio_segments(video.audio, merged_segments); the audio track is as
\* long as the video
MergeMutes ==
    /\ pc = "mute_merge"
    /\ IF all_mute_segments # <<>> /\ has_audio
       THEN /\ all_mute_segments' = SortSegs(all_mute_segments)
            /\ merged_segments' = MergeMuteSegs(all_mute_segments')
            /\ IF SilenceFails(merged_segments')
               THEN pc' = "crashed" /\ UNCHANGED audio_pieces
               ELSE /\ audio_pieces' = MutePieces(merged_segments', video_duration)
                    /\ pc' = "build_keep"
       ELSE /\ pc' = "build_keep"
            /\ UNCHANGED <<all_mute_segments, merged_segments, audio_pieces>>
    /\ UNCHANGED <<video_duration, has_audio, loadVars, marked, remove_segments,
                   keep_segments, clips, runVars, parseVars, edl_mute_segments, muted,
                   tempVars, pathVars, trackVars>>

\* ---------------------------------------------------------------- fades
\* a fade of the fade prompt: (fade_type, fade_start, fade_duration)
Fade(type, start, dur) == <<type, start, dur>>

\* the answers given at "Fade DURATION"
FadeDurationTexts == {TxtEnd, TxtUntilEnd, TxtOneSec, TxtTwo, TxtZero, TxtNegOne, TxtX}

\* fade_duration for the answer: video.duration - fade_start for "end" and
\* "until end", else parse_timestamp_string, whose exception makes the loop
\* continue
FadeDuration(text, start, d) ==
    LET t == LowerText(Strip(text))
    IN  IF t \in {TxtEnd, TxtUntilEnd} THEN Return(<<d - start>>)
        ELSE parse_timestamp_string(t, <<d>>)

\* the two checks before fades.append
FadeRejected(start, dur, d) ==
    \/ start < 0 \/ start >= d
    \/ dur <= 0 \/ start + dur > d

\* "Add a fade?" answered y, and a fade that passes the checks
FadeAccept ==
    /\ pc = "fade_prompt"
    /\ Len(fades) < MaxFades
    /\ \E type \in {"in", "out"}, start \in PromptValues(video_duration),
          text \in FadeDurationTexts :
         /\ ~FadeDuration(text, start, video_duration).raised
         /\ ~FadeRejected(start, FadeDuration(text, start, video_duration).val[1],
                          video_duration)
         /\ fades' = Append(fades, Fade(type, start,
                                        FadeDuration(text, start, video_duration).val[1]))
    /\ UNCHANGED <<pc, video_duration, has_audio, loadVars, editVars, runVars, muteVars,
                   parseVars, tempVars, pathVars, fade_pieces, out_pieces>>

\* "Add a fade?" answered y, and a duration that does not parse or a fade
\* that fails a check: continue
FadeReject ==
    /\ pc = "fade_prompt"
    /\ \E start \in PromptValues(video_duration), text \in FadeDurationTexts :
         IF FadeDuration(text, start, video_duration).raised THEN TRUE
         ELSE FadeRejected(start, FadeDuration(text, start, video_duration).val[1],
                           video_duration)
    /\ UNCHANGED vars

\* "Add a fade?" answered anything but y: break
FadeDone ==
    /\ pc = "fade_prompt"
    /\ pc' = IF fades # <<>> THEN "build_fades" ELSE "faded"
    /\ UNCHANGED <<video_duration, has_audio, loadVars, editVars, runVars, muteVars,
                   parseVars, tempVars, pathVars, trackVars>>

\* sorted(fades, key=lambda x: x[1]): a stable sort on fade_start
RECURSIVE InsertFade(_, _)
InsertFade(sorted, f) ==
    IF sorted = <<>> THEN <<f>>
    ELSE IF f[2] < Head(sorted)[2] THEN <<f>> \o sorted
    ELSE <<Head(sorted)>> \o InsertFade(Tail(sorted), f)

RECURSIVE SortFades(_)
SortFades(fs) ==
    IF fs = <<>> THEN <<>>
    ELSE InsertFade(SortFades(SubSeq(fs, 1, Len(fs) - 1)), fs[Len(fs)])

\* a full-volume piece follows the fade: it is an "in", and the next fade is
\* an "out" that starts after it ends
FadeGap(fs, idx, prev_end) ==
    /\ fs[idx][1] = "in" /\ idx + 1 <= Len(fs)
    /\ fs[idx + 1][1] = "out" /\ fs[idx + 1][2] > prev_end

\* the loop over the sorted fades from index idx: state is <<segments, prev_end>>;
\* a silence piece carries the output range it fills, a piece of the
\* soundtrack the range it is cut from
RECURSIVE FadePiecesFrom(_, _, _, _)
FadePiecesFrom(pieces, prev_end, fs, idx) ==
    IF idx > Len(fs) THEN <<pieces, prev_end>>
    ELSE LET fade_start == fs[idx][2]
             fade_end == fs[idx][2] + fs[idx][3]
             silence == IF fade_start > prev_end
                        THEN <<Piece("silence", prev_end, fade_start)>> ELSE <<>>
             seg == <<Piece("fade", fade_start, fade_end)>>
         IN  IF FadeGap(fs, idx, fade_end)
             THEN FadePiecesFrom(pieces \o silence \o seg
                                   \o <<Piece("audio", fade_end, fs[idx + 1][2])>>,
                                 fs[idx + 1][2], fs, idx + 1)
             ELSE FadePiecesFrom(pieces \o silence \o seg, fade_end, fs, idx + 1)

\* sum([s.duration for s in segments])
RECURSIVE TotalLength(_)
TotalLength(pieces) ==
    IF pieces = <<>> THEN 0
    ELSE (Head(pieces).end - Head(pieces).start) + TotalLength(Tail(pieces))

\* the list build_audio_with_fades_and_padding passes to
\* concatenate_audioclips, for a soundtrack at least total_duration long
FadePieces(fs, total_duration) ==
    LET r == FadePiecesFrom(<<>>, 0, SortFades(fs), 1)
        rest == IF r[2] < total_duration
                THEN Append(r[1], Piece("audio", r[2], total_duration)) ELSE r[1]
        total_length == TotalLength(rest)
    IN  IF total_length < total_duration
        THEN Append(rest, Piece("silence", total_length, total_duration)) ELSE rest

\* if fades: new_audio = build_audio_with_fades_and_padding(new_audio, fades,
\*                                                         video.duration)
BuildFades ==
    /\ pc = "build_fades"
    /\ fade_pieces' = FadePieces(fades, video_duration)
    /\ pc' = "faded"
    /\ UNCHANGED <<video_duration, has_audio, loadVars, editVars, runVars, muteVars,
                   parseVars, tempVars, pathVars, fades, out_pieces>>

\* ---------------------------------------------------------------- output path
\* a path in the video's directory with the video's extension: the stem of
\* the file name and the number of "_NEW" appended to it
Path(stem, news) == <<stem, news>>

\* output_path = f"{base}_EDIT{ext}"
DefaultPath == Path("EDIT", 0)

\* the stems of the file names: the default one and one the user types
Stems == {"EDIT", "other"}

PathNames == {Path(st, n) : st \in Stems, n \in 0..MaxNewSuffix}

\* what the user types at "Enter a new filename": nothing (<<>>), or a name
\* with or without the extension
TypedNames ==
    {<<>>} \cup {<<[stem |-> st, news |-> n, ext |-> e]>> :
                   st \in Stems, n \in 0..MaxNewSuffix, e \in BOOLEAN}

\* the new output_path: the old stem with "_NEW" for an empty answer, else
\* the typed name, the extension added where the name does not end with it
NewPath(path, typed) ==
    IF typed = <<>> THEN Path(path[1], path[2] + 1)
    ELSE Path(typed[1].stem, typed[1].news)

\* PathExists for the default path only
PathExistsDefaultOnly(path, ex) == path \in ex /\ path = DefaultPath

\* os.path.exists(output_path)
PathExists(path, ex) == path \in ex

\* check_overwrite: the loop is not entered, return output_path
OverwriteReturnFree ==
    /\ pc = "overwrite_check"
    /\ ~PathExists(output_path[1], existing)
    /\ resolved' = output_path
    /\ pc' = "path_returned"
    /\ UNCHANGED <<video_duration, has_audio, loadVars, editVars, runVars, muteVars,
                   parseVars, tempVars, output_path, existing, confirmed, written,
                   script, trackVars>>

\* check_overwrite: "Overwrite?" answered y, return output_path
OverwriteYes ==
    /\ pc = "overwrite_check"
    /\ PathExists(output_path[1], existing)
    /\ confirmed' = TRUE
    /\ resolved' = output_path
    /\ pc' = "path_returned"
    /\ UNCHANGED <<video_duration, has_audio, loadVars, editVars, runVars, muteVars,
                   parseVars, tempVars, output_path, existing, written, script,
                   trackVars>>

\* check_overwrite: "Overwrite?" answered q, return None
OverwriteQuit ==
    /\ pc = "overwrite_check"
    /\ PathExists(output_path[1], existing)
    /\ resolved' = <<>>
    /\ pc' = "path_quit"
    /\ UNCHANGED <<video_duration, has_audio, loadVars, editVars, runVars, muteVars,
                   parseVars, tempVars, output_path, existing, confirmed, written,
                   script, trackVars>>

\* check_overwrite: any other answer, a new file name is asked for
OverwriteDecline ==
    /\ pc = "overwrite_check"
    /\ PathExists(output_path[1], existing)
    /\ pc' = "overwrite_name"
    /\ UNCHANGED <<video_duration, has_audio, loadVars, editVars, runVars, muteVars,
                   parseVars, tempVars, pathVars, trackVars>>

\* check_overwrite: q at "Enter a new filename", return None
OverwriteQuitAtName ==
    /\ pc = "overwrite_name"
    /\ resolved' = <<>>
    /\ pc' = "path_quit"
    /\ UNCHANGED <<video_duration, has_audio, loadVars, editVars, runVars, muteVars,
                   parseVars, tempVars, output_path, existing, confirmed, written,
                   script, trackVars>>

\* check_overwrite: a new file name, and the loop condition is tested again
OverwriteNewName ==
    /\ pc = "overwrite_name"
    /\ \E typed \in TypedNames :
         /\ typed = <<>> => output_path[1][2] < MaxNewSuffix
         /\ output_path' = <<NewPath(output_path[1], typed)>>
    /\ pc' = "overwrite_check"
    /\ UNCHANGED <<video_duration, has_audio, loadVars, editVars, runVars, muteVars,
                   parseVars, tempVars, existing, confirmed, written, resolved, script,
                   trackVars>>

\* the (path, confirmed) pairs v1's check_overwrite returns to the script for
\* the default path: the default or a typed name, not existing or confirmed
V1Resolved(ex) ==
    {<<p, c>> \in PathNames \X BOOLEAN :
        /\ c <=> PathExists(p, ex)
        /\ p # DefaultPath => PathExists(DefaultPath, ex)}

\* Beta's output path check: one question where the default path exists, and
\* the new file name is taken without a look at the disk
BetaResolved(ex) ==
    IF ~PathExists(DefaultPath, ex) THEN {<<DefaultPath, FALSE>>}
    ELSE {<<DefaultPath, TRUE>>} \cup {<<p, FALSE>> : p \in PathNames}

\* the script goes on from the output path check with a path (None exits)
PathResolved ==
    /\ existing \in SUBSET PathNames
    /\ \E pr \in IF script = "v1" THEN V1Resolved(existing) ELSE BetaResolved(existing) :
         /\ output_path = <<pr[1]>>
         /\ confirmed = pr[2]
         /\ resolved = <<pr[1]>>
    /\ written = <<>>

\* ---------------------------------------------------------------- the run
Timings == {"none", "before", "after"}

\* the graphic and caption prompts: no overlay, or one placed before or after
\* the segment removal
ChooseOverlays ==
    /\ pc = "overlay_prompt"
    /\ graphic_timing' \in Timings
    /\ caption_timing' \in Timings
    /\ pc' = "overlay_before"
    /\ UNCHANGED <<video_duration, has_audio, loadVars, editVars, muteVars, parseVars,
                   stages, audio_mode, convert_result, use_hw, gpu_type, hw_result,
                   tempVars, pathVars, trackVars>>

\* if graphic_timing == "before" / if caption_timing == "before"
AppliesBefore(timing) == timing = "before"

AppliesAfterAlways(timing) == timing # "none"

\* if graphic_timing == "after" / if caption_timing == "after"
AppliesAfter(timing) == timing = "after"

\* the stages an overlay step carries out
OverlayStages(graphic, caption, suffix) ==
    (IF graphic THEN <<"graphic_" \o suffix>> ELSE <<>>)
        \o (IF caption THEN <<"caption_" \o suffix>> ELSE <<>>)

\* the overlays placed before the removal
ApplyOverlaysBefore ==
    /\ pc = "overlay_before"
    /\ stages' = stages \o OverlayStages(AppliesBefore(graphic_timing),
                                         AppliesBefore(caption_timing), "before")
    /\ pc' = "use_edl"
    /\ UNCHANGED <<video_duration, has_audio, loadVars, editVars, muteVars, parseVars,
                   choiceVars,
                   tempVars, pathVars, trackVars>>

\* "Use an Edit Decision List?" answered anything but y: the removal prompt
AnswerNoEdl ==
    /\ pc = "use_edl"
    /\ pc' = "remove_prompt"
    /\ UNCHANGED <<video_duration, has_audio, loadVars, editVars, runVars, muteVars,
                   parseVars,
                   tempVars, pathVars, trackVars>>

\* the audio of the video the clips are cut from: none, the original track,
\* or the track mute_audio_segments built
SourceTrack(audio, pieces, d) ==
    IF ~audio THEN <<>>
    ELSE IF pieces = <<>> THEN <<Piece("audio", 0, d)>>
    ELSE pieces

Max2(a, b) == IF a > b THEN a ELSE b

Min2(a, b) == IF a < b THEN a ELSE b

\* SubclipTrack cutting the first end - start seconds of the track
SubclipTrackFromZero(track, start, end) ==
    LET cut(p) == Piece(p.kind, Max2(p.start, 0), Min2(p.end, end - start))
        hit == SelectSeq(track, LAMBDA p : Max2(p.start, 0) < Min2(p.end, end - start))
    IN  [i \in 1..Len(hit) |-> cut(hit[i])]

\* the audio of video.subclipped(start, end): what the track holds from
\* start to end, each piece keeping its place in the source
SubclipTrack(track, start, end) ==
    LET cut(p) == Piece(p.kind, Max2(p.start, start), Min2(p.end, end))
        hit == SelectSeq(track, LAMBDA p : Max2(p.start, start) < Min2(p.end, end))
    IN  [i \in 1..Len(hit) |-> cut(hit[i])]

\* the audio of concatenate_videoclips(clips): the clips' audio end to end
RECURSIVE ConcatTrack(_, _)
ConcatTrack(track, cs) ==
    IF cs = <<>> THEN <<>>
    ELSE SubclipTrack(track, Head(cs)[1], Head(cs)[2]) \o ConcatTrack(track, Tail(cs))

\* concatenate_videoclips(clips, method="compose")
Concatenate ==
    /\ pc = "concatenate"
    /\ stages' = Append(stages, "concatenate")
    /\ out_pieces' = ConcatTrack(SourceTrack(has_audio, audio_pieces, video_duration),
                                 clips)
    /\ pc' = "overlay_after"
    /\ UNCHANGED <<video_duration, has_audio, loadVars, editVars, muteVars, parseVars,
                   choiceVars, tempVars, pathVars, fades, fade_pieces>>

\* the overlays placed after the removal
ApplyOverlaysAfter ==
    /\ pc = "overlay_after"
    /\ stages' = stages \o OverlayStages(AppliesAfter(graphic_timing),
                                         AppliesAfter(caption_timing), "after")
    /\ pc' = "audio_prompt"
    /\ UNCHANGED <<video_duration, has_audio, loadVars, editVars, muteVars, parseVars,
                   choiceVars,
                   tempVars, pathVars, trackVars>>

\* the modes the audio prompt accepts
AudioModes(audio) == IF audio THEN {"1", "2", "3", "4"} ELSE {"1", "2"}

\* "Choose audio mode": asked again until the answer is one of the modes
ChooseAudioMode ==
    /\ pc = "audio_prompt"
    /\ script = "v1"
    /\ audio_mode' \in AudioModes(has_audio)
    /\ pc' = "audio"
    /\ UNCHANGED <<video_duration, has_audio, loadVars, editVars, muteVars, parseVars,
                   stages, graphic_timing, caption_timing, convert_result, use_hw,
                   gpu_type, hw_result,
                   tempVars, pathVars, trackVars>>

\* elif audio_mode in {"3", "4"} ..., reached only when the mode is neither
\* "1" nor "2"
LoadsSoundtrack(mode) == mode \notin {"1", "2"} /\ mode \in {"3", "4"}

\* convert_mp3_to_wav: the path is returned as it is when it is no .mp3; a
\* CalledProcessError of the transcoder is caught and the .mp3 path returned
ConvertOutcomes(is_mp3) == IF is_mp3 THEN {"ok", "failed"} ELSE {"not_mp3"}

\* video_with_audio.audio after the branch on audio_mode: the original track
\* (None without one) for "1", None for "2", the soundtrack for "3", the mix
\* for "4"
BranchAudio(mode, audio) ==
    IF mode = "1" THEN (IF audio THEN "original" ELSE "none")
    ELSE IF mode = "2" THEN "none"
    ELSE IF mode = "3" THEN "soundtrack"
    ELSE "mix"

\* GeneratesSilence for mode "2" only
GeneratesSilenceModeTwo(mode, out) == mode = "2" /\ out = "none"

\* if (audio_mode == "2" and video_with_audio.audio is None) or
\*    (audio_mode == "1" and video_with_audio.audio is None): silence
GeneratesSilence(mode, out) ==
    (mode = "2" /\ out = "none") \/ (mode = "1" /\ out = "none")

\* the audio track handed to the render section
FinalAudio(mode, audio) ==
    IF GeneratesSilence(mode, BranchAudio(mode, audio)) THEN "silence"
    ELSE BranchAudio(mode, audio)

\* the audio section for the modes that load no soundtrack: "1" keeps the
\* track, "2" drops it, and silence is generated where no track is left
ResolveAudio ==
    /\ pc = "audio"
    /\ script = "v1"
    /\ ~LoadsSoundtrack(audio_mode)
    /\ out_audio' = FinalAudio(audio_mode, has_audio)
    /\ stages' = Append(stages, "audio")
    /\ pc' = "render_prompt"
    /\ UNCHANGED <<video_duration, has_audio, loadVars, editVars, muteVars, parseVars,
                   choiceVars, temp_wav, temp_mp4, add_audio, pathVars, trackVars>>

\* what is on disk at the temporary WAV path after convert_mp3_to_wav: the
\* WAV after a conversion, nothing when none was run, and whatever the
\* transcoder left when it exited non-zero
WavAfterConvert(outcome) ==
    IF outcome = "ok" THEN {"exists"}
    ELSE IF outcome = "failed" THEN {"none", "exists"}
    ELSE {"none"}

\* Beta: the modes the audio prompt accepts
BetaAudioModes(audio) == IF audio THEN {"1", "2", "3"} ELSE {"1", "2"}

\* Beta, "Choose audio mode": asked again until the answer is one of the modes
BetaChooseAudioMode ==
    /\ pc = "audio_prompt"
    /\ script = "beta"
    /\ audio_mode' \in BetaAudioModes(has_audio)
    /\ pc' = "audio"
    /\ UNCHANGED <<video_duration, has_audio, loadVars, editVars, muteVars, parseVars,
                   stages, graphic_timing, caption_timing, convert_result, use_hw,
                   gpu_type, hw_result,
                   tempVars, pathVars, trackVars>>

\* Beta: video_with_audio.audio after the branch on audio_mode and add_audio:
\* None for "1"; with a soundtrack, the soundtrack for "2" and the mix for "3";
\* without one, None for "2" and the video as it is for "3"
BetaBranchAudio(mode, add, audio) ==
    IF mode = "1" THEN "none"
    ELSE IF add = "y" THEN (IF mode = "2" THEN "soundtrack" ELSE "mix")
    ELSE IF mode = "2" THEN "none"
    ELSE IF audio THEN "original" ELSE "none"

\* Beta: if audio_mode == "1" or (audio_mode in {"2", "3"} and
\*          video_with_audio.audio is None): silence
BetaGeneratesSilence(mode, out) ==
    mode = "1" \/ (mode \in {"2", "3"} /\ out = "none")

\* Beta: the audio track handed to the render section
BetaFinalAudio(mode, add, audio) ==
    IF BetaGeneratesSilence(mode, BetaBranchAudio(mode, add, audio)) THEN "silence"
    ELSE BetaBranchAudio(mode, add, audio)

\* Beta: the audio section without a soundtrack: mode "1", or the answer to
\* "add an additional audio track?" is not y
BetaResolveAudio ==
    /\ pc = "audio"
    /\ script = "beta"
    /\ add_audio' \in IF audio_mode = "1" THEN {""} ELSE {"n"}
    /\ out_audio' = BetaFinalAudio(audio_mode, add_audio', has_audio)
    /\ stages' = Append(stages, "audio")
    /\ pc' = "render_prompt"
    /\ UNCHANGED <<video_duration, has_audio, loadVars, editVars, muteVars, parseVars,
                   choiceVars, temp_wav, temp_mp4, pathVars, trackVars>>

\* Beta: add_audio == 'y': get_input and convert_mp3_to_wav
BetaConvertSoundtrack ==
    /\ pc = "audio"
    /\ script = "beta"
    /\ audio_mode \in {"2", "3"}
    /\ add_audio' = "y"
    /\ \E is_mp3 \in BOOLEAN :
         /\ convert_result' \in ConvertOutcomes(is_mp3)
         /\ temp_wav' \in WavAfterConvert(convert_result')
    /\ pc' = "soundtrack"
    /\ UNCHANGED <<video_duration, has_audio, loadVars, editVars, muteVars, parseVars,
                   stages, graphic_timing, caption_timing, audio_mode, use_hw, gpu_type,
                   hw_result, temp_mp4, out_audio, pathVars, trackVars>>

\* audio_path = get_input(...); converted_audio_path = convert_mp3_to_wav(audio_path)
ConvertSoundtrack ==
    /\ pc = "audio"
    /\ script = "v1"
    /\ LoadsSoundtrack(audio_mode)
    /\ \E is_mp3 \in BOOLEAN :
         /\ convert_result' \in ConvertOutcomes(is_mp3)
         /\ temp_wav' \in WavAfterConvert(convert_result')
    /\ pc' = "soundtrack"
    /\ UNCHANGED <<video_duration, has_audio, loadVars, editVars, muteVars, parseVars,
                   stages, graphic_timing, caption_timing, audio_mode, use_hw, gpu_type,
                   hw_result, temp_mp4, out_audio, add_audio, pathVars, trackVars>>

\* if converted_audio_path != audio_path: unlink
WavAfterCleanup(outcome, wav) == IF outcome = "ok" THEN "deleted" ELSE wav

\* the rest of the soundtrack branch: loop, volume, fades, pad, replace or
\* mix, close, and the unlink of the converted WAV; float() of the volume
\* answer raises ValueError for a text that is no number, which nothing catches
AttachSoundtrack ==
    /\ pc = "soundtrack"
    /\ \E volume_ok \in BOOLEAN :
         IF volume_ok
         THEN /\ out_audio' = IF script = "v1"
                              THEN FinalAudio(audio_mode, has_audio)
                              ELSE BetaFinalAudio(audio_mode, add_audio, has_audio)
              /\ temp_wav' = WavAfterCleanup(convert_result, temp_wav)
              /\ stages' = Append(stages, "audio")
              /\ pc' = "render_prompt"
         ELSE /\ pc' = "crashed"
              /\ UNCHANGED <<out_audio, temp_wav, stages>>
    /\ UNCHANGED <<video_duration, has_audio, loadVars, editVars, muteVars, parseVars,
                   choiceVars, temp_mp4, add_audio, pathVars, trackVars>>

\* the GPU types the prompt accepts
GpuTypes == {"nvidia", "amd", "intel"}

\* a gpu_type saved in the configuration file is taken as it is
SavedGpuTypes == GpuTypes \cup {"cuda"}

\* the hardware prompt: gpu_type stays None without hardware acceleration, is
\* the saved one when reused, or one the GPU prompt accepts
ChooseRender ==
    /\ pc = "render_prompt"
    /\ \E hw \in BOOLEAN :
         /\ use_hw' = hw
         /\ gpu_type' \in IF hw THEN GpuTypes \cup SavedGpuTypes ELSE {""}
    /\ pc' = "encode"
    /\ UNCHANGED <<video_duration, has_audio, loadVars, editVars, muteVars, parseVars,
                   stages, graphic_timing, caption_timing, audio_mode, convert_result,
                   hw_result,
                   tempVars, pathVars, trackVars>>

\* video_with_audio.write_videofile(temp_path, ...)
SoftwareEncode ==
    /\ pc = "encode"
    /\ stages' = Append(stages, "encode")
    /\ temp_mp4' = "exists"
    /\ pc' = "finalize"
    /\ UNCHANGED <<video_duration, has_audio, loadVars, editVars, muteVars, parseVars,
                   choiceVars, temp_wav, out_audio, add_audio, pathVars, trackVars>>

\* if use_hw and gpu_type
ReEncodes(hw, gpu) == hw /\ gpu # ""

AfterHwExitIgnored(ok) == "done"

\* subprocess.run(cmd, check=True): a non-zero exit raises CalledProcessError,
\* which nothing catches
AfterHwExit(ok) == IF ok THEN "done" ELSE "failed"

\* the hardware re-encode; hw_codec is unbound for a gpu_type that is none of
\* the three, and building cmd raises NameError
HardwareEncode ==
    /\ pc = "finalize"
    /\ ReEncodes(use_hw, gpu_type)
    /\ IF gpu_type \notin GpuTypes
       THEN pc' = "crashed" /\ UNCHANGED <<stages, hw_result, temp_mp4, written>>
       ELSE \E ok \in BOOLEAN :
              /\ stages' = Append(stages, "hw_encode")
              /\ hw_result' = IF ok THEN "ok" ELSE "failed"
              /\ pc' = AfterHwExit(ok)
              /\ temp_mp4' = IF pc' = "done" THEN "deleted" ELSE temp_mp4
              /\ written' = IF pc' = "done" THEN output_path ELSE written
    /\ UNCHANGED <<video_duration, has_audio, loadVars, editVars, muteVars, parseVars,
                   graphic_timing, caption_timing, audio_mode, convert_result, use_hw,
                   gpu_type, temp_wav, out_audio, add_audio, output_path, existing, confirmed,
                   resolved, script, trackVars>>

\* v1, else: os.replace(temp_path, output_path)
ReplaceOutput ==
    /\ pc = "finalize"
    /\ script = "v1"
    /\ ~ReEncodes(use_hw, gpu_type)
    /\ temp_mp4' = "renamed"
    /\ written' = output_path
    /\ pc' = "done"
    /\ UNCHANGED <<video_duration, has_audio, loadVars, editVars, runVars, muteVars,
                   parseVars, temp_wav, out_audio, add_audio, output_path, existing,
                   confirmed,
                   resolved, script, trackVars>>

\* Beta, else: output_path = f"{base}_EDIT{ext}"; os.replace(temp_path, output_path)
BetaReplaceOutput ==
    /\ pc = "finalize"
    /\ script = "beta"
    /\ ~ReEncodes(use_hw, gpu_type)
    /\ output_path' = <<DefaultPath>>
    /\ temp_mp4' = "renamed"
    /\ written' = output_path'
    /\ pc' = "done"
    /\ UNCHANGED <<video_duration, has_audio, loadVars, editVars, runVars, muteVars,
                   parseVars, temp_wav, out_audio, add_audio, existing, confirmed,
                   resolved, script, trackVars>>

\* ---------------------------------------------------------------- EDL files
ActionTexts == {ActRemove, ActKeepRaw, ActMute, ActInsert, TxtEmpty, TxtX}
RecordInTexts == {TxtEmpty, TxtStart, TxtOneSec, TxtNegOne}
RecordOutTexts == {TxtEmpty, TxtEnd, TxtTwo, TxtX}

Row(a, i, o) == [action |-> a, record_in |-> i, record_out |-> o]

\* every combination of the field texts
AllRows == {Row(a, i, o) : a \in ActionTexts, i \in RecordInTexts, o \in RecordOutTexts}

\* a valid remove row, a remove row without record_out, a valid mute row
FillerRows == {Row(ActRemove, TxtStart, TxtEnd), Row(ActRemove, TxtOneSec, TxtEmpty),
               Row(ActMute, TxtStart, TxtEnd)}

\* The files loaded: up to MaxRows rows, one of them any row of AllRows and
\* the others rows of FillerRows.
Files ==
    {<<>>} \cup UNION {
        {[f EXCEPT ![i] = r] : f \in [1..n -> FillerRows], i \in 1..n, r \in AllRows}
        : n \in 1..MaxRows}

\* mute_audio rows: ranges inside the video, past its end, reversed, and rows
\* that do not parse
MuteRows == {Row(ActMute, i, o) : i \in {TxtStart, TxtTwo},
                                  o \in {TxtEnd, TxtTwo, TxtOneSec, TxtX}}

\* files of up to MaxMuteRows mute_audio rows
MuteFiles == UNION {[1..n -> MuteRows] : n \in 0..MaxMuteRows}

\* the characters of the texts parsed
ParseAlphabet == {"1", "2", ":", " ", "x"}

Txt130 == <<"1", ":", "3", "0">>
Txt010203 == <<"0", "1", ":", "0", "2", ":", "0", "3">>
TxtFourParts == <<"1", ":", "1", ":", "1", ":", "1">>
TxtEndPadded == <<" ", "E", "N", "D", " ">>
TxtStartCapital == <<"S", "t", "a", "r", "t">>
TxtNegMinSec == <<"-", "1", ":", "3", "0">>

\* every text of up to MaxTextLen characters of ParseAlphabet, and the
\* keywords, signed and longer texts
ParseTexts ==
    UNION {[1..n -> ParseAlphabet] : n \in 0..MaxTextLen}
        \cup {TxtStart, TxtEnd, TxtStartCapital, TxtEndPadded, TxtUntilEnd, TxtFromStart,
              Txt130, Txt010203, TxtFourParts, TxtNegOne, TxtNegMinSec, TxtOneSec}

\* the video_duration arguments: None or a duration
ParseDurations == {<<>>} \cup {<<d>> : d \in 1..MaxParseDuration}

\* a row of the Beta file format; a column the file does not have is <<>>
BetaRow(a, rin, rout, src, sin, sout, tin, tout) ==
    [action |-> a, record_in |-> rin, record_out |-> rout, insert_source |-> src,
     source_in |-> sin, source_out |-> sout, transition_in_duration |-> tin,
     transition_out_duration |-> tout]

\* insert rows: every combination of the field texts
InsertRows ==
    {BetaRow(ActInsert, rin, TxtEmpty, src, sin, sout, tin, <<>>) :
        rin \in {TxtEmpty, TxtOneSec},
        src \in {TxtBlank, TxtA},
        sin \in {<<>>, <<TxtEmpty>>, <<TxtOneSec>>, <<TxtTwo>>},
        sout \in {<<>>, <<TxtEmpty>>, <<TxtEnd>>, <<TxtTwo>>, <<TxtOneSec>>},
        tin \in {<<>>, <<TxtEmpty>>, <<TxtX>>}}

\* a valid insert row and a valid remove row
BetaFillerRows ==
    {BetaRow(ActInsert, TxtStart, TxtEmpty, TxtA, <<>>, <<TxtTwo>>, <<>>, <<>>),
     BetaRow(ActRemove, TxtStart, TxtEnd, TxtEmpty, <<>>, <<>>, <<>>, <<>>)}

\* The Beta files loaded: up to MaxBetaRows rows, one of them any row of
\* InsertRows and the others rows of BetaFillerRows.
BetaFiles ==
    {<<>>} \cup UNION {
        {[f EXCEPT ![i] = r] : f \in [1..n -> BetaFillerRows], i \in 1..n,
                               r \in InsertRows}
        : n \in 1..MaxBetaRows}

\* remove rows: every combination of the record field texts
RemoveRows == {Row(ActRemove, i, o) : i \in RecordInTexts, o \in RecordOutTexts}

\* EDL files of remove rows, up to MaxKeepRows rows
RemoveFiles == UNION {[1..n -> RemoveRows] : n \in 0..MaxKeepRows}

\* ---------------------------------------------------------------- specifications
NoLoad ==
    /\ strict = FALSE /\ rows = <<>> /\ row_idx = 0 /\ operations = <<>>
    /\ op_rows = <<>> /\ skipped = <<>> /\ error_row = 0

NoEdit ==
    /\ marked = <<>> /\ remove_segments = <<>> /\ all_mute_segments = <<>>
    /\ keep_segments = <<>> /\ clips = <<>>

NoRun ==
    /\ graphic_timing = "none" /\ caption_timing = "none" /\ stages = <<>>
    /\ audio_mode = "" /\ convert_result = "none" /\ use_hw = FALSE
    /\ gpu_type = "" /\ hw_result = "none"

NoMute ==
    /\ edl_mute_segments = <<>> /\ muted = <<>> /\ merged_segments = <<>>
    /\ audio_pieces = <<>>

NoParse == text_in = <<>> /\ dur_in = <<>> /\ parsed = <<>>

NoTemp ==
    temp_wav = "none" /\ temp_mp4 = "none" /\ out_audio = "unset" /\ add_audio = ""

NoPath ==
    /\ output_path = <<>> /\ existing = {} /\ confirmed = FALSE /\ written = <<>>
    /\ resolved = <<>>

NoTracks == fades = <<>> /\ fade_pieces = <<>> /\ out_pieces = <<>>

\* the default output path did not exist and check_overwrite returned it
FreshPath ==
    /\ output_path = <<DefaultPath>> /\ existing = {} /\ confirmed = FALSE
    /\ written = <<>> /\ resolved = <<DefaultPath>>

\* what no claim of a run of the v1 script looks at
V1Rest == script = "v1" /\ NoPath /\ NoTracks

\* load_edl_csv(file, video.duration, strict) on a file of Files; after a
\* lenient load the main script partitions the operations.
InitLoad ==
    /\ pc = "load"
    /\ video_duration \in 1..MaxLoadDuration
    /\ has_audio = FALSE
    /\ strict \in BOOLEAN
    /\ rows \in Files
    /\ row_idx = 0 /\ operations = <<>> /\ op_rows = <<>> /\ skipped = <<>>
    /\ error_row = 0
    /\ NoEdit /\ NoRun /\ NoMute /\ NoParse /\ NoTemp /\ V1Rest

\* the main script calls load_edl_csv with strict=False
PartitionRemove == ~strict /\ ExtractRemove

NextLoad ==
    \/ LoadRowAppend
    \/ LoadRowSkip
    \/ LoadRowRaise
    \/ LoadReturn
    \/ PartitionRemove
    \/ SortMergeRemove
    \/ ExtractMute

SpecLoad == InitLoad /\ [][NextLoad]_vars

\* The main script from the removal prompt on, no EDL, a video without an
\* audio track.
InitEdit ==
    /\ pc = "remove_prompt"
    /\ video_duration \in 1..MaxDuration
    /\ has_audio = FALSE
    /\ NoLoad
    /\ NoEdit /\ NoRun /\ NoMute /\ NoParse /\ NoTemp /\ V1Rest

NextEdit ==
    \/ PromptRemoveAccept
    \/ PromptRemoveReject
    \/ PromptRemoveDone
    \/ SortMergeRemove
    \/ ExtractMute
    \/ SkipMuteNoAudio
    \/ BuildKeep
    \/ MakeClips

SpecEdit == InitEdit /\ [][NextEdit]_vars

\* The main script on a video with an audio track: a lenient load of a file
\* of MuteFiles, the partition, the mute prompt and the mute merge.
InitMute ==
    /\ pc = "load"
    /\ video_duration \in 1..MaxMuteDuration
    /\ has_audio = TRUE
    /\ strict = FALSE
    /\ rows \in MuteFiles
    /\ row_idx = 0 /\ operations = <<>> /\ op_rows = <<>> /\ skipped = <<>>
    /\ error_row = 0
    /\ NoEdit /\ NoRun /\ NoMute /\ NoParse /\ NoTemp /\ V1Rest

NextMute ==
    \/ LoadRowAppend
    \/ LoadRowSkip
    \/ LoadReturn
    \/ PartitionRemove
    \/ SortMergeRemove
    \/ ExtractMute
    \/ PromptMuteAccept
    \/ PromptMuteReject
    \/ PromptMuteDone
    \/ MergeMutes

SpecMute == InitMute /\ [][NextMute]_vars

\* load_edl_csv(file, video.duration, strict) of the Beta script on a file of
\* BetaFiles.
InitLoadBeta ==
    /\ pc = "load"
    /\ video_duration \in 1..MaxLoadDuration
    /\ has_audio = FALSE
    /\ strict \in BOOLEAN
    /\ rows \in BetaFiles
    /\ row_idx = 0 /\ operations = <<>> /\ op_rows = <<>> /\ skipped = <<>>
    /\ error_row = 0
    /\ NoEdit /\ NoRun /\ NoMute /\ NoParse /\ NoTemp 
    /\ script = "beta" /\ NoPath /\ NoTracks

NextLoadBeta ==
    \/ BetaLoadRowAppend
    \/ BetaLoadRowSkip
    \/ BetaLoadRowRaise
    \/ LoadReturn

SpecLoadBeta == InitLoadBeta /\ [][NextLoadBeta]_vars

\* One call of parse_timestamp_string on a text of ParseTexts, with and
\* without a video_duration.
InitParse ==
    /\ pc = "parse"
    /\ text_in \in ParseTexts
    /\ dur_in \in ParseDurations
    /\ parsed = <<>>
    /\ video_duration = 1
    /\ has_audio = FALSE
    /\ NoLoad
    /\ NoEdit /\ NoRun /\ NoMute /\ NoTemp /\ V1Rest

NextParse == ParseTimestamp

SpecParse == InitParse /\ [][NextParse]_vars

\* The main script from the overlay prompts to its end, no EDL.
InitRun ==
    /\ pc = "overlay_prompt"
    /\ video_duration \in 1..MaxRunDuration
    /\ has_audio \in BOOLEAN
    /\ NoLoad
    /\ NoEdit /\ NoRun /\ NoMute /\ NoParse /\ NoTemp
    /\ script = "v1" /\ FreshPath /\ NoTracks

RunPromptRemoveAccept == Len(remove_segments) < MaxRunSegs /\ PromptRemoveAccept

NextRun ==
    \/ ChooseOverlays
    \/ ApplyOverlaysBefore
    \/ AnswerNoEdl
    \/ RunPromptRemoveAccept
    \/ PromptRemoveReject
    \/ PromptRemoveDone
    \/ SortMergeRemove
    \/ ExtractMute
    \/ PromptMuteAccept
    \/ PromptMuteReject
    \/ PromptMuteDone
    \/ MergeMutes
    \/ SkipMuteNoAudio
    \/ BuildKeep
    \/ MakeClips
    \/ Concatenate
    \/ ApplyOverlaysAfter
    \/ ChooseAudioMode
    \/ ResolveAudio
    \/ ConvertSoundtrack
    \/ AttachSoundtrack
    \/ ChooseRender
    \/ SoftwareEncode
    \/ HardwareEncode
    \/ ReplaceOutput

SpecRun == InitRun /\ [][NextRun]_vars

\* check_overwrite called on the default output path.
InitOverwrite ==
    /\ pc = "overwrite_check"
    /\ video_duration = 1
    /\ has_audio = FALSE
    /\ NoLoad
    /\ NoEdit /\ NoRun /\ NoMute /\ NoParse /\ NoTemp /\ NoTracks
    /\ script = "v1"
    /\ output_path = <<DefaultPath>>
    /\ existing \in SUBSET PathNames
    /\ confirmed = FALSE /\ written = <<>> /\ resolved = <<>>

NextOverwrite ==
    \/ OverwriteReturnFree
    \/ OverwriteYes
    \/ OverwriteQuit
    \/ OverwriteDecline
    \/ OverwriteQuitAtName
    \/ OverwriteNewName

SpecOverwrite == InitOverwrite /\ [][NextOverwrite]_vars

\* Either script from the audio prompt to its end, the output path resolved.
InitExport ==
    /\ pc = "audio_prompt"
    /\ video_duration = 1
    /\ has_audio \in BOOLEAN
    /\ NoLoad
    /\ NoEdit /\ NoRun /\ NoMute /\ NoParse /\ NoTemp /\ NoTracks
    /\ script \in {"v1", "beta"}
    /\ PathResolved

NextExport ==
    \/ ChooseAudioMode
    \/ ResolveAudio
    \/ ConvertSoundtrack
    \/ BetaChooseAudioMode
    \/ BetaResolveAudio
    \/ BetaConvertSoundtrack
    \/ AttachSoundtrack
    \/ ChooseRender
    \/ SoftwareEncode
    \/ HardwareEncode
    \/ ReplaceOutput
    \/ BetaReplaceOutput

SpecExport == InitExport /\ [][NextExport]_vars

\* The fade prompt loop of the soundtrack branch and the track it builds.
InitFades ==
    /\ pc = "fade_prompt"
    /\ video_duration \in 1..MaxFadeDuration
    /\ has_audio = TRUE
    /\ NoLoad
    /\ NoEdit /\ NoRun /\ NoMute /\ NoParse /\ NoTemp /\ V1Rest

NextFades ==
    \/ FadeAccept
    \/ FadeReject
    \/ FadeDone
    \/ BuildFades

SpecFades == InitFades /\ [][NextFades]_vars

\* The main script from "Use an EDL?" to the clips, on a video without audio:
\* a lenient load of a file of remove rows, or the removal prompt.
InitKeep ==
    /\ video_duration \in 1..MaxKeepDuration
    /\ has_audio = FALSE
    /\ strict = FALSE
    /\ \/ pc = "load" /\ rows \in RemoveFiles
       \/ pc = "remove_prompt" /\ rows = <<>>
    /\ row_idx = 0 /\ operations = <<>> /\ op_rows = <<>> /\ skipped = <<>>
    /\ error_row = 0
    /\ NoEdit /\ NoRun /\ NoMute /\ NoParse /\ NoTemp /\ V1Rest

NextKeep ==
    \/ LoadRowAppend
    \/ LoadRowSkip
    \/ LoadReturn
    \/ PartitionRemove
    \/ PromptRemoveAccept
    \/ PromptRemoveReject
    \/ PromptRemoveDone
    \/ SortMergeRemove
    \/ ExtractMute
    \/ SkipMuteNoAudio
    \/ BuildKeep
    \/ MakeClips

SpecKeep == InitKeep /\ [][NextKeep]_vars

\* ---------------------------------------------------------------- properties
NormAction(row) == LowerText(Strip(row.action))

\* the set of elements of a sequence
Elems(q) == {q[i] : i \in 1..Len(q)}

\* A row fails: a present record field does not parse, or the row is a
\* remove/keep row with a missing field or with a range outside
\* 0 <= record_in < record_out <= d.
RowFails(row, d) ==
    LET pin == parse_timestamp_string(row.record_in, <<d>>)
        pout == parse_timestamp_string(row.record_out, <<d>>)
    IN  \/ row.record_in # <<>> /\ pin.raised
        \/ row.record_out # <<>> /\ pout.raised
        \/ /\ NormAction(row) \in {ActRemove, ActKeep}
           /\ \/ row.record_in = <<>>
              \/ row.record_out = <<>>
              \/ ~(0 <= pin.val[1] /\ pin.val[1] < pout.val[1] /\ pout.val[1] <= d)

\* C1: every remove or keep operation in the loader's list has record_in and
\* record_out defined with 0 <= record_in < record_out <= D, and no remove or
\* keep row that lacks a field is the source of an operation.
C1_RemoveKeepValidated ==
    /\ \A k \in 1..Len(operations) :
         operations[k].action \in {ActRemove, ActKeep} =>
           /\ operations[k].record_in # <<>>
           /\ operations[k].record_out # <<>>
           /\ 0 <= operations[k].record_in[1]
           /\ operations[k].record_in[1] < operations[k].record_out[1]
           /\ operations[k].record_out[1] <= video_duration
    /\ \A k \in 1..Len(op_rows) :
         NormAction(rows[op_rows[k]]) \in {ActRemove, ActKeep} =>
           /\ rows[op_rows[k]].record_in # <<>>
           /\ rows[op_rows[k]].record_out # <<>>

\* C1 witness: a lenient load has returned a remove operation and has skipped
\* a keep row whose range ends after the video.
C1_Witness ==
    /\ pc = "loaded" /\ ~strict
    /\ \E k \in 1..Len(operations) : operations[k].action = ActRemove
    /\ \E i \in Elems(skipped) :
         /\ NormAction(rows[i]) = ActKeep
         /\ rows[i].record_in = TxtStart /\ rows[i].record_out = TxtTwo

\* C2: every mute_audio operation in the loader's list has record_in and
\* record_out defined with 0 <= record_in < record_out <= D, so the main
\* script's extraction of the mute ranges finds both fields and every range
\* it extracts satisfies 0 <= start < end <= D.
C2_MuteRowsValidated ==
    /\ \A k \in 1..Len(operations) :
         operations[k].action = ActMute =>
           /\ operations[k].record_in # <<>>
           /\ operations[k].record_out # <<>>
           /\ 0 <= operations[k].record_in[1]
           /\ operations[k].record_in[1] < operations[k].record_out[1]
           /\ operations[k].record_out[1] <= video_duration
    /\ pc # "crashed"
    /\ \A i \in 1..Len(all_mute_segments) :
         /\ 0 <= all_mute_segments[i][1]
         /\ all_mute_segments[i][1] < all_mute_segments[i][2]
         /\ all_mute_segments[i][2] <= video_duration

\* C3: in a lenient load no row raises out of the loader; every consumed row
\* is the source of exactly one operation or of exactly one diagnostic that
\* carries its 1-based index, never both; a row is skipped only if it fails;
\* and the loader returns only after consuming every row.
C3_LenientNeverAborts ==
    ~strict =>
      /\ pc # "raised" /\ error_row = 0
      /\ Len(operations) + Len(skipped) = row_idx
      /\ \A i \in 1..row_idx :
           Cardinality({k \in 1..Len(op_rows) : op_rows[k] = i})
             + Cardinality({k \in 1..Len(skipped) : skipped[k] = i}) = 1
      /\ Elems(op_rows) \cup Elems(skipped) = 1..row_idx
      /\ \A i \in 1..row_idx :
           (i \in Elems(skipped)) <=> RowFails(rows[i], video_duration)
      /\ pc # "load" => row_idx = Len(rows)

\* C3 witness: a lenient load of three rows has returned, its second row
\* skipped and its first and third rows returned.
C3_Witness ==
    /\ pc = "loaded" /\ ~strict /\ Len(rows) = 3
    /\ skipped = <<2>> /\ op_rows = <<1, 3>>

\* C4: in a strict load nothing is skipped; the error is raised at the first
\* failing row of the file and carries its 1-based index; once raised, no
\* later row has been consumed and the loader has not returned; and the
\* loader returns only for a file without failing rows.
C4_StrictFailsAtFirstFailure ==
    strict =>
      /\ skipped = <<>>
      /\ pc = "raised" <=> error_row # 0
      /\ pc = "raised" =>
           /\ error_row \in 1..Len(rows)
           /\ row_idx = error_row
           /\ RowFails(rows[error_row], video_duration)
           /\ \A j \in 1..(error_row - 1) : ~RowFails(rows[j], video_duration)
      /\ pc = "loaded" => \A j \in 1..Len(rows) : ~RowFails(rows[j], video_duration)

\* C4 witness: a strict load of three rows has raised at its second row,
\* after parsing the first.
C4_Witness ==
    /\ strict /\ pc = "raised" /\ Len(rows) = 3
    /\ error_row = 2 /\ Len(operations) = 1

\* C5: the operations list holds, in ascending row order and at most once
\* per row, the operations parsed from the rows they came from.
C5_OrderPreserved ==
    /\ Len(op_rows) = Len(operations)
    /\ \A j, k \in 1..Len(op_rows) : j < k => op_rows[j] < op_rows[k]
    /\ \A k \in 1..Len(op_rows) :
         /\ op_rows[k] \in 1..row_idx
         /\ operations[k].action = NormAction(rows[op_rows[k]])
         /\ operations[k].record_in =
              IF rows[op_rows[k]].record_in = <<>> THEN <<>>
              ELSE parse_timestamp_string(rows[op_rows[k]].record_in,
                                          <<video_duration>>).val
         /\ operations[k].record_out =
              IF rows[op_rows[k]].record_out = <<>> THEN <<>>
              ELSE parse_timestamp_string(rows[op_rows[k]].record_out,
                                          <<video_duration>>).val

\* C5 witness: a load has returned two different operations from rows 1 and
\* 3 of a file whose row 2 was skipped.
C5_Witness ==
    /\ pc = "loaded" /\ op_rows = <<1, 3>> /\ skipped = <<2>>
    /\ operations[1] # operations[2]

\* the positions of the main script after the remove-merge
AfterMerge == {"edl_mute", "mute_prompt", "build_keep", "make_clips",
               "exit_no_video", "exit_no_clips", "concatenate"}

\* the positions of the main script after the keep-segment loop
AfterKeep == {"make_clips", "exit_no_video", "exit_no_clips", "concatenate"}

\* second t of the timeline, [t, t+1), lies in range seg
Covers(seg, t) == seg[1] <= t /\ t < seg[2]

CoveredBy(segs, t) == \E i \in 1..Len(segs) : Covers(segs[i], t)

RECURSIVE SumLengths(_)
SumLengths(segs) ==
    IF segs = <<>> THEN 0
    ELSE (Head(segs)[2] - Head(segs)[1]) + SumLengths(Tail(segs))

\* C6: after the remove-merge of ranges with start < end, every range of
\* remove_segments has start < end and every range ends strictly before the
\* next one starts.
C6_MergedSortedDisjoint ==
    (pc \in AfterMerge /\ \A i \in 1..Len(marked) : marked[i][1] < marked[i][2]) =>
      /\ \A i \in 1..Len(remove_segments) :
           remove_segments[i][1] < remove_segments[i][2]
      /\ \A i \in 1..(Len(remove_segments) - 1) :
           /\ remove_segments[i][2] < remove_segments[i + 1][1]
           /\ remove_segments[i][1] < remove_segments[i + 1][1]

\* C6 witness: the merge has left two ranges from three marked ones, two of
\* which touched at a boundary.
C6_Witness ==
    /\ pc \in AfterMerge /\ Len(marked) = 3 /\ Len(remove_segments) = 2
    /\ \E i, j \in 1..Len(marked) : marked[i][2] = marked[j][1]

\* C7: after the remove-merge a second of the timeline lies in a range of
\* remove_segments iff it lies in a marked range, remove_segments has one
\* range per maximal run of covered seconds, and the merge of (2,5), (4,8),
\* (10,12) is (2,8), (10,12).
C7_MergeCoversInput ==
    /\ pc \in AfterMerge =>
         /\ \A t \in 0..(video_duration - 1) :
              CoveredBy(remove_segments, t) <=> CoveredBy(marked, t)
         /\ \A i \in 1..Len(remove_segments) :
              /\ \E j \in 1..Len(marked) : marked[j][1] = remove_segments[i][1]
              /\ \E j \in 1..Len(marked) : marked[j][2] = remove_segments[i][2]
         /\ Len(remove_segments) =
              Cardinality({t \in 0..(video_duration - 1) :
                             /\ CoveredBy(marked, t)
                             /\ (t = 0 \/ ~CoveredBy(marked, t - 1))})
    /\ MergeRemoveSegs(SortSegs(<<<<2, 5>>, <<4, 8>>, <<10, 12>>>>))
         = <<<<2, 8>>, <<10, 12>>>>

\* C7 witness: the merge has made one range of three marked ones, of which
\* a later-sorted one ends before an earlier-sorted one.
C7_Witness ==
    /\ pc \in AfterMerge /\ Len(marked) = 3 /\ Len(remove_segments) = 1
    /\ \E i, j \in 1..Len(marked) :
         marked[i][1] < marked[j][1] /\ marked[j][2] < marked[i][2]

\* C8: sorting and merging the merged remove_segments again gives the same
\* list.
C8_MergeIdempotent ==
    pc \in AfterMerge =>
      MergeRemoveSegs(SortSegs(remove_segments)) = remove_segments

\* C8 witness: the merge has left two ranges of three marked ones, one of
\* them a range that was not marked as such.
C8_Witness ==
    /\ pc \in AfterMerge
    /\ Len(remove_segments) = 2 /\ Len(marked) = 3
    /\ \E i \in 1..Len(remove_segments) : remove_segments[i] \notin Elems(marked)

\* C9: the list the remove-merge makes of the marked ranges is the list the
\* mute-merge makes of the same ranges.
C9_SameMergeRule ==
    pc \in AfterMerge => remove_segments = MergeMuteSegs(SortSegs(marked))

\* C9 witness: the remove-merge has joined two ranges that touch at a
\* boundary and kept a third apart.
C9_Witness ==
    /\ pc \in AfterMerge /\ Len(remove_segments) = 2
    /\ \E i, j \in 1..Len(marked) :
         /\ marked[i][2] = marked[j][1]
         /\ \E k \in 1..Len(remove_segments) :
              remove_segments[k] = <<marked[i][1], marked[j][2]>>

\* C10: after the keep-segment loop the keep ranges are non-empty, ascending
\* and within [0, D]; every second of [0, D) lies in exactly one range of
\* keep_segments and remove_segments together; the lengths of all of them
\* sum to D; nothing removed keeps exactly (0, D); and the keep ranges of
\* (2,8), (10,12) in 15 seconds are (0,2), (8,10), (12,15).
C10_KeepTilesTimeline ==
    /\ pc \in AfterKeep =>
         /\ \A i \in 1..Len(keep_segments) :
              /\ 0 <= keep_segments[i][1]
              /\ keep_segments[i][1] < keep_segments[i][2]
              /\ keep_segments[i][2] <= video_duration
         /\ \A i \in 1..(Len(keep_segments) - 1) :
              keep_segments[i][2] <= keep_segments[i + 1][1]
         /\ \A t \in 0..(video_duration - 1) :
              Cardinality({i \in 1..Len(keep_segments) : Covers(keep_segments[i], t)})
                + Cardinality({i \in 1..Len(remove_segments) :
                                 Covers(remove_segments[i], t)}) = 1
         /\ SumLengths(keep_segments) + SumLengths(remove_segments) = video_duration
         /\ remove_segments = <<>> => keep_segments = <<<<0, video_duration>>>>
    /\ KeepSegments(<<<<2, 8>>, <<10, 12>>>>, 15) = <<<<0, 2>>, <<8, 10>>, <<12, 15>>>>

\* C10 witness: two ranges removed, the second up to the end of the video,
\* and two ranges kept, the first from 0.
C10_Witness ==
    /\ pc \in AfterKeep
    /\ Len(remove_segments) = 2 /\ Len(keep_segments) = 2
    /\ keep_segments[1][1] = 0 /\ remove_segments[2][2] = video_duration

\* the stages of a run in the order of the script
StageOrder == <<"graphic_before", "caption_before", "keep", "concatenate",
                "graphic_after", "caption_after", "audio", "encode", "hw_encode">>

Rank(stage) == CHOOSE i \in 1..Len(StageOrder) : StageOrder[i] = stage

\* the stages that follow the keep-segment loop
LaterStages == {"concatenate", "graphic_after", "caption_after", "audio", "encode",
                "hw_encode"}

\* C11: when the ranges marked for removal cover every second of [0, D), the
\* keep-segment loop produces no range and the run ends at the "No video
\* left after removals!" exit; there no step of the script can follow, and no
\* concatenation, overlay, audio step, encode or re-encode has been carried
\* out and no audio mode or render choice has been made.
C11_NoVideoLeftTerminates ==
    /\ ("keep" \in Elems(stages)
          /\ \A t \in 0..(video_duration - 1) : CoveredBy(marked, t))
         => pc = "exit_no_video" /\ keep_segments = <<>>
    /\ pc = "exit_no_video" =>
         /\ ~ENABLED NextRun
         /\ Elems(stages) \cap LaterStages = {}
         /\ clips = <<>> /\ audio_mode = "" /\ gpu_type = "" /\ hw_result = "none"

\* C11 witness: the whole timeline was marked for removal and the run is at
\* the exit.
C11_Witness ==
    /\ pc = "exit_no_video"
    /\ marked = <<<<0, video_duration>>>>
    /\ stages[Len(stages)] = "keep"

C20_TranscoderExitFatal ==
    (convert_result = "failed" \/ hw_result = "failed") => pc = "failed"

\* C20 amended: a non-zero exit of the hardware re-encode is fatal: the run
\* fails there, no step follows, the re-encode was run once and the run does
\* not finish; a non-zero exit of the MP3-to-WAV conversion is caught and the
\* run goes on to the render.
C20_HwExitFatalConversionCaught ==
    /\ hw_result = "failed" =>
         /\ pc = "failed"
         /\ ~ENABLED NextRun
         /\ Cardinality({i \in 1..Len(stages) : stages[i] = "hw_encode"}) = 1
    /\ pc = "failed" => hw_result = "failed"
    /\ pc = "done" => hw_result # "failed"
    /\ convert_result = "failed" =>
         /\ pc \in {"soundtrack", "render_prompt", "encode", "finalize", "done",
                     "failed", "crashed"}
         /\ pc \in {"soundtrack", "render_prompt", "encode", "finalize"}
              => ENABLED NextRun
         /\ "audio" \in Elems(stages) => out_audio \in {"soundtrack", "mix"}

\* C20 witness: the conversion exited non-zero, the run went on, and the
\* hardware re-encode exited non-zero.
C20_Witness ==
    /\ pc = "failed"
    /\ convert_result = "failed"
    /\ hw_result = "failed"

\* the seconds a mute range of these runs can cover
MuteGrid == (0 - 1)..(video_duration + 2)

\* the covered duration of a set of ranges: the seconds lying in one of them
CoveredDuration(segs) == Cardinality({t \in MuteGrid : CoveredBy(segs, t)})

\* the mute merge has run
MuteMerged == pc \in {"build_keep", "crashed"} /\ merged_segments # <<>>

\* C12: after the mute merge, a second lies in a range of merged_segments
\* exactly when it lies in a mute range of the EDL or in a range accepted at
\* the mute prompt; no second lies in two ranges of merged_segments; the
\* covered duration of merged_segments is at most the covered duration of
\* the EDL ranges plus that of the prompted ranges, and less when an EDL
\* range and a prompted range share a second; with no range from either
\* source nothing is merged.
C12_MuteSetIsUnion ==
    /\ MuteMerged =>
         /\ \A t \in MuteGrid :
              CoveredBy(merged_segments, t)
                <=> (CoveredBy(edl_mute_segments, t) \/ CoveredBy(muted, t))
         /\ \A t \in MuteGrid :
              Cardinality({i \in 1..Len(merged_segments) :
                             Covers(merged_segments[i], t)}) <= 1
         /\ CoveredDuration(merged_segments)
              <= CoveredDuration(edl_mute_segments) + CoveredDuration(muted)
         /\ (\E t \in MuteGrid : CoveredBy(edl_mute_segments, t) /\ CoveredBy(muted, t))
              => CoveredDuration(merged_segments)
                   < CoveredDuration(edl_mute_segments) + CoveredDuration(muted)
    /\ (pc = "build_keep" /\ merged_segments = <<>>)
         => edl_mute_segments = <<>> /\ muted = <<>>

\* C12 witness: an EDL mute range and a prompted one that share a second were
\* merged into one range.
C12_Witness ==
    /\ pc = "build_keep"
    /\ edl_mute_segments # <<>> /\ muted # <<>>
    /\ \E t \in MuteGrid : CoveredBy(edl_mute_segments, t) /\ CoveredBy(muted, t)
    /\ Len(merged_segments) = 1

RECURSIVE PieceLengths(_)
PieceLengths(pieces) ==
    IF pieces = <<>> THEN 0
    ELSE (Head(pieces).end - Head(pieces).start) + PieceLengths(Tail(pieces))

\* C13 as stated: whenever the mute merge has run, mute_audio_segments builds
\* its pieces without failing on a negative length, every piece has start <=
\* end, the first piece starts at 0, each piece starts where the one before
\* it ends, the last one ends at the track's duration, and the lengths sum to
\* that duration.
C13_SilencePreservesLength ==
    MuteMerged =>
        /\ pc = "build_keep"
        /\ audio_pieces # <<>>
        /\ \A i \in 1..Len(audio_pieces) : audio_pieces[i].start <= audio_pieces[i].end
        /\ audio_pieces[1].start = 0
        /\ \A i \in 1..(Len(audio_pieces) - 1) :
             audio_pieces[i].end = audio_pieces[i + 1].start
        /\ audio_pieces[Len(audio_pieces)].end = video_duration
        /\ PieceLengths(audio_pieces) = video_duration

\* the positions of the colons of a text
ColonAt(t) == {i \in 1..Len(t) : t[i] = ":"}

\* the position of the k-th colon
NthColon(t, k) == CHOOSE i \in ColonAt(t) : Cardinality({j \in ColonAt(t) : j < i}) = k - 1

\* the k-th of the colon-separated parts
ColonPart(t, k) ==
    SubSeq(t, IF k = 1 THEN 1 ELSE NthColon(t, k - 1) + 1,
              IF k = Cardinality(ColonAt(t)) + 1 THEN Len(t) ELSE NthColon(t, k) - 1)

\* C14: for the trimmed and lowercased text, parse_timestamp_string returns
\* 0 for "start"; the duration for "end" when one is passed; M*60+S for two
\* numeric parts around one colon; H*3600+M*60+S for three numeric parts
\* around two colons; the number for numeric text without a colon; and it
\* raises for every other text.  "1:30" gives 90, "01:02:03" gives 3723 and
\* "end" with duration 42 gives 42.
C14_ParseTimestampCases ==
    /\ pc = "parsed" =>
         LET t == LowerText(Strip(text_in))
             r == parsed[1]
             n == Cardinality(ColonAt(t))
             numeric == \A k \in 1..(n + 1) : IsFloat(ColonPart(t, k))
             num(k) == FloatVal(ColonPart(t, k))
         IN  /\ t = TxtStart => r = Return(<<0>>)
             /\ (t = TxtEnd /\ dur_in # <<>>) => r = Return(dur_in)
             /\ t \notin {TxtStart, TxtEnd} =>
                  /\ (n = 0 /\ numeric) => r = Return(<<num(1)>>)
                  /\ (n = 1 /\ numeric) => r = Return(<<num(1) * 60 + num(2)>>)
                  /\ (n = 2 /\ numeric)
                       => r = Return(<<num(1) * 3600 + num(2) * 60 + num(3)>>)
                  /\ (n > 2 \/ ~numeric) => r = Raise
    /\ parse_timestamp_string(Txt130, <<>>) = Return(<<90>>)
    /\ parse_timestamp_string(Txt010203, <<>>) = Return(<<3723>>)
    /\ parse_timestamp_string(TxtEnd, <<42>>) = Return(<<42>>)

\* C14 witness: a text of two numeric parts, with blanks around it, was
\* parsed to minutes and seconds.
C14_Witness ==
    /\ pc = "parsed"
    /\ text_in = <<" ", "2", ":", "1", "2">>
    /\ parsed = <<Return(<<132>>)>>

\* C15 as stated: the call with the text "end", trimmed and lowercased, and
\* no video_duration raises.
C15_EndWithoutDurationRaises ==
    (pc = "parsed" /\ LowerText(Strip(text_in)) = TxtEnd /\ dur_in = <<>>)
        => parsed[1].raised

\* the action of the row is none of remove, keep, insert, mute_audio
Unrecognized(row) == NormAction(row) \notin {ActRemove, ActKeep, ActInsert, ActMute}

\* a record field of the row is present and does not parse
FieldsFail(row, d) ==
    \/ row.record_in # <<>> /\ parse_timestamp_string(row.record_in, <<d>>).raised
    \/ row.record_out # <<>> /\ parse_timestamp_string(row.record_out, <<d>>).raised

\* the file without its rows of unrecognized action
WithoutUnrecognized(rs) == SelectSeq(rs, LAMBDA r : ~Unrecognized(r))

\* what a lenient load returns for the rows rs
RECURSIVE LoadedOps(_, _)
LoadedOps(rs, d) ==
    IF rs = <<>> THEN <<>>
    ELSE LET r == RowResult(Head(rs), d)
         IN  (IF r.raised THEN <<>> ELSE <<r.op>>) \o LoadedOps(Tail(rs), d)

\* the ops of one action among the ops loaded without the unrecognized rows
OpsWithout(act) ==
    SelectSeq(LoadedOps(WithoutUnrecognized(rows), video_duration),
              LAMBDA op : op.action = act)

\* the row of index i was appended as an op tagged with its action
CarriedThrough(i) ==
    \E k \in 1..Len(op_rows) :
        op_rows[k] = i /\ operations[k].action = NormAction(rows[i])

\* a lenient load: the ranges extracted, the merged remove ranges and the keep
\* ranges they give are those of the file without its unrecognized rows, and
\* the extraction fails only on an op of that file
UnrecognizedInert ==
    /\ (~strict /\ pc \in {"merge", "edl_mute", "mute_prompt"})
         => marked = RangesOf(OpsWithout(ActRemove))
    /\ (~strict /\ pc \in {"edl_mute", "mute_prompt"}) =>
         LET removes == MergeRemoveSegs(SortSegs(RangesOf(OpsWithout(ActRemove))))
         IN  /\ remove_segments = removes
             /\ KeepSegments(remove_segments, video_duration)
                  = KeepSegments(removes, video_duration)
    /\ (~strict /\ pc = "mute_prompt")
         => all_mute_segments = RangesOf(OpsWithout(ActMute))
    /\ (~strict /\ pc = "crashed")
         => \E i \in 1..Len(OpsWithout(ActMute)) : KeyMissing(OpsWithout(ActMute)[i])

\* C16 as stated: every row of unrecognized action the loader has read was
\* appended as an op tagged with its action, and the ranges extracted are
\* those of the file without these rows.
C16_UnrecognizedCarriedAndInert ==
    /\ \A i \in 1..row_idx : Unrecognized(rows[i]) => CarriedThrough(i)
    /\ UnrecognizedInert

\* C16 amended: a row of unrecognized action the loader has read was appended
\* as an op tagged with its action exactly when no present record field of
\* it fails to parse, and is a row failure otherwise; the ranges extracted
\* are those of the file without these rows.
C16_UnrecognizedInert ==
    /\ \A i \in 1..row_idx :
         Unrecognized(rows[i])
           => (CarriedThrough(i) <=> ~FieldsFail(rows[i], video_duration))
    /\ \A i \in 1..row_idx :
         (Unrecognized(rows[i]) /\ FieldsFail(rows[i], video_duration))
           => (i \in Elems(skipped) \/ error_row = i)
    /\ UnrecognizedInert

\* C16 witness: an op of unrecognized action with both record fields was
\* loaded next to a remove op, and both extractions are done.
C16_Witness ==
    /\ pc = "mute_prompt"
    /\ marked # <<>>
    /\ \E k \in 1..Len(operations) :
         /\ operations[k].action \notin {ActRemove, ActKeep, ActInsert, ActMute}
         /\ operations[k].record_in # <<>>
         /\ operations[k].record_out # <<>>

\* the timestamp a source cell gives, <<>> when it gives none
SourceVal(cell, default) ==
    LET r == parse_timestamp_string(RowGet(cell, default), <<>>)
    IN  IF r.raised THEN <<>> ELSE r.val

\* the row's cell is there and not empty
Supplied(cell) == cell # <<>> /\ cell[1] # <<>>

\* An insert row breaks a requirement: no insert_source, no source_out or
\* one that is no timestamp ("end" included), a supplied source_in that is
\* no timestamp, source_in >= source_out, or no record_in.
InsertViolates(row) ==
    LET sin == IF Supplied(row.source_in) THEN SourceVal(row.source_in, TxtZero)
               ELSE <<0>>
        sout == SourceVal(row.source_out, TxtEmpty)
    IN  \/ Strip(row.insert_source) = <<>>
        \/ sout = <<>>
        \/ sin = <<>>
        \/ (sin # <<>> /\ sout # <<>> /\ sin[1] >= sout[1])
        \/ row.record_in = <<>>

\* the row of index i was rejected: skipped with a diagnostic, or the error
\* of strict mode, and no op came from it
Rejected(i) ==
    /\ i \in Elems(skipped) \/ error_row = i
    /\ \A k \in 1..Len(op_rows) : op_rows[k] # i

\* C17: every insert op in operations has a non-empty insert_source, a
\* source_in and a source_out with source_in < source_out, and a record_in;
\* every insert row read that breaks one of these requirements, a source_out
\* of "end" included, was rejected.
C17_InsertValidated ==
    /\ \A k \in 1..Len(operations) :
         operations[k].action = ActInsert =>
           /\ operations[k].insert_source # <<>>
           /\ operations[k].insert_source[1] # <<>>
           /\ operations[k].source_in # <<>>
           /\ operations[k].source_out # <<>>
           /\ operations[k].source_in[1] < operations[k].source_out[1]
           /\ operations[k].record_in # <<>>
    /\ \A i \in 1..row_idx :
         (NormAction(rows[i]) = ActInsert /\ InsertViolates(rows[i])) => Rejected(i)
    /\ \A i \in 1..row_idx :
         (NormAction(rows[i]) = ActInsert /\ rows[i].source_out = <<TxtEnd>>)
           => Rejected(i)

\* C17 witness: a lenient load returned an insert op and skipped an insert
\* row whose only fault is the source_out "end".
C17_Witness ==
    /\ pc = "loaded"
    /\ \E k \in 1..Len(operations) : operations[k].action = ActInsert
    /\ \E i \in 1..Len(rows) :
         /\ i \in Elems(skipped)
         /\ rows[i] = BetaRow(ActInsert, TxtOneSec, TxtEmpty, TxtA, <<>>, <<TxtEnd>>,
                              <<>>, <<>>)

\* C18 as stated: an insert row read whose source_in column is absent or
\* empty, and which is valid otherwise with source_out > 0, was appended as
\* an op with source_in = 0.
C18_SourceInDefaultsToZero ==
    \A i \in 1..row_idx :
        (/\ NormAction(rows[i]) = ActInsert
         /\ ~Supplied(rows[i].source_in)
         /\ ~InsertViolates(rows[i])
         /\ ~FieldsFail(rows[i], video_duration)
         /\ ~FloatOrZero(rows[i].transition_in_duration).raised
         /\ ~FloatOrZero(rows[i].transition_out_duration).raised)
        => \E k \in 1..Len(op_rows) :
               op_rows[k] = i /\ operations[k].source_in = <<0>>

\* the run is over: it finished, a step failed, or it exited early
RunEnded == pc \in {"done", "failed", "crashed", "exit_no_video", "exit_no_clips"}

\* C21 as stated: when the run has ended, on any exit path, neither the
\* converted temporary WAV nor the intermediate render file is left on disk:
\* each was deleted, or the intermediate was renamed into the final output.
C21_TempFilesDoNotOutliveRun ==
    RunEnded => (temp_wav # "exists" /\ temp_mp4 # "exists")

\* C22 as stated: in v1, with a source without audio and menu option 2
\* chosen, the audio section loads a soundtrack and the rendered video
\* carries it, not a silent track.
C22_OptionTwoAddsSoundtrack ==
    (script = "v1" /\ ~has_audio /\ audio_mode = "2" /\ "audio" \in Elems(stages))
        => (convert_result # "none" /\ out_audio = "soundtrack")

\* C24 as stated: whenever the hardware re-encode stage is entered (use_hw
\* true and gpu_type non-empty), gpu_type is one of nvidia, amd, intel, for
\* every stored gpu_type the user may reuse.
C24_GpuTypeKnownAtHwStage ==
    (pc = "finalize" /\ ReEncodes(use_hw, gpu_type)) => gpu_type \in GpuTypes

\* C23 as stated: the final video is written only to the path the overwrite
\* prompt resolved: on every render path the finished run wrote to that path,
\* and an existing default file the user declined to overwrite was not written.
C23_WrittenToResolvedPath ==
    pc = "done" =>
        /\ written = resolved
        /\ (DefaultPath \in existing /\ resolved # <<DefaultPath>>)
             => written # <<DefaultPath>>

\* the clip handed to write_videofile has an audio track
HasTrack == out_audio \in {"original", "soundtrack", "mix", "silence"}

\* the track the clip must carry when nothing was generated
ChosenTrack ==
    IF script = "v1"
    THEN BranchAudio(audio_mode, has_audio)
    ELSE BetaBranchAudio(audio_mode, add_audio, has_audio)

\* C27: in both scripts, for a source with or without audio, every selectable
\* audio mode and every answer to "add an additional audio track?", the clip
\* handed to the software encode has a non-null audio track: the original, the
\* soundtrack, the mix, or generated silence where the branch left none.
C27_EncodedClipHasAudio ==
    pc \in {"render_prompt", "encode", "finalize", "done", "failed"} =>
        /\ HasTrack
        /\ out_audio = "silence" \/ out_audio = ChosenTrack
        /\ ChosenTrack = "none" => out_audio = "silence"

\* C27 witness: the Beta script encoded a video without audio after mode "2"
\* and the answer n, with generated silence as its track.
C27_Witness ==
    /\ script = "beta" /\ ~has_audio /\ audio_mode = "2" /\ add_audio = "n"
    /\ temp_mp4 = "exists"
    /\ out_audio = "silence"

\* C28: check_overwrite returns None after a q, or a path: one the user
\* answered y for, or one that did not exist when it was checked; an existing
\* path is not returned unconfirmed, and while the path under test exists the
\* function asks again and cannot return it without an answer.
C28_OverwriteResult ==
    /\ pc = "path_quit" => resolved = <<>>
    /\ pc = "path_returned" =>
         /\ resolved = output_path /\ resolved # <<>>
         /\ resolved[1] \in existing <=> confirmed
    /\ (pc = "overwrite_check" /\ output_path[1] \in existing) =>
         /\ ~ENABLED OverwriteReturnFree
         /\ ENABLED OverwriteDecline

\* C28 witness: after two declined names of existing files, a third name of
\* a file that does not exist was returned unconfirmed.
C28_Witness ==
    /\ pc = "path_returned"
    /\ ~confirmed
    /\ resolved = <<Path("other", 1)>>
    /\ {DefaultPath, Path("EDIT", 1), Path("other", 0)} \subseteq existing

\* the output audio second by second: <<kind, source second>>
RECURSIVE TrackSeconds(_)
TrackSeconds(track) ==
    IF track = <<>> THEN <<>>
    ELSE LET p == Head(track)
         IN  [i \in 1..(p.end - p.start) |-> <<p.kind, p.start + i - 1>>]
             \o TrackSeconds(Tail(track))

\* the second from t to t + 1 lies in one of the ranges
SecondIn(segs, t) == \E i \in 1..Len(segs) : segs[i][1] <= t /\ t + 1 <= segs[i][2]

\* the seconds before t that lie in no removed range
KeptBefore(t) == Cardinality({u \in 0..(t - 1) : ~SecondIn(marked, u)})

\* C25: the mute ranges are applied to the source timeline before the keep
\* segments are cut: a removed second is not in the output whatever was
\* muted there, and a kept source second t is at the output position shifted
\* by what was removed before it, silent exactly when a mute range covers t.
C25_MuteInSourceCoordinates ==
    (has_audio /\ "concatenate" \in Elems(stages)) =>
        LET out == TrackSeconds(out_pieces)
        IN  /\ Len(out) = KeptBefore(video_duration)
            /\ \A t \in 0..(video_duration - 1) :
                 IF SecondIn(marked, t)
                 THEN \A k \in 1..Len(out) : out[k][2] # t
                 ELSE /\ out[KeptBefore(t) + 1][2] = t
                      /\ out[KeptBefore(t) + 1][1] = "silence" <=> SecondIn(muted, t)

\* C25 witness: the first second was removed and the second one muted; the
\* output is one second long, silent, and it is source second 1.
C25_Witness ==
    /\ video_duration = 2 /\ has_audio
    /\ marked = <<<<0, 1>>>> /\ muted = <<<<1, 2>>>>
    /\ "concatenate" \in Elems(stages)
    /\ TrackSeconds(out_pieces) = <<<<"silence", 1>>>>

\* the action of the row is keep or insert
KeepOrInsert(row) == NormAction(row) \in {ActKeep, ActInsert}

\* the file with all its keep and insert rows deleted
WithoutKeepInsert(rs) == SelectSeq(rs, LAMBDA r : ~KeepOrInsert(r))

\* the ops of one action among the ops loaded from that file
OpsWithoutKeepInsert(act) ==
    SelectSeq(LoadedOps(WithoutKeepInsert(rows), video_duration),
              LAMBDA op : op.action = act)

\* C26: the keep and insert ops the loader returns do not change the edit:
\* the remove ranges extracted, the merged remove ranges, the keep ranges they
\* give and the mute ranges are those of the same file with all keep and
\* insert rows deleted, and the extraction fails only where it fails for
\* that file.
C26_KeepInsertInert ==
    /\ (~strict /\ pc \in {"merge", "edl_mute", "mute_prompt"})
         => marked = RangesOf(OpsWithoutKeepInsert(ActRemove))
    /\ (~strict /\ pc \in {"edl_mute", "mute_prompt"}) =>
         LET removes == MergeRemoveSegs(SortSegs(RangesOf(OpsWithoutKeepInsert(ActRemove))))
         IN  /\ remove_segments = removes
             /\ KeepSegments(remove_segments, video_duration)
                  = KeepSegments(removes, video_duration)
    /\ (~strict /\ pc = "mute_prompt")
         => all_mute_segments = RangesOf(OpsWithoutKeepInsert(ActMute))
    /\ (~strict /\ pc = "crashed")
         => \E i \in 1..Len(OpsWithoutKeepInsert(ActMute)) :
                KeyMissing(OpsWithoutKeepInsert(ActMute)[i])

\* C26 witness: a lenient load returned a keep op beside a remove op, and the
\* remove and mute ranges were extracted.
C26_Witness ==
    /\ ~strict /\ pc = "mute_prompt"
    /\ \E k \in 1..Len(operations) : operations[k].action = ActKeep
    /\ marked # <<>>

\* the output offset of the piece of index i: the lengths of the pieces
\* before it
OffsetOf(pieces, i) == TotalLength(SubSeq(pieces, 1, i - 1))

\* C29 as stated: for every list of fades the fade prompt accepted, the
\* pieces build_audio_with_fades_and_padding concatenates have durations
\* summing to total_duration, and each piece cut from the soundtrack is cut
\* from the time offset at which it is placed in the output.
C29_FadePiecesTileDuration ==
    (pc = "faded" /\ fades # <<>>) =>
        /\ TotalLength(fade_pieces) = video_duration
        /\ \A i \in 1..Len(fade_pieces) :
             fade_pieces[i].kind # "silence"
               => fade_pieces[i].start = OffsetOf(fade_pieces, i)

\* C30: with the remove set taken from the remove rows a lenient load
\* accepted or from the segments the removal prompt accepted, every keep
\* range the keep-segment loop builds has 0 <= start < end <= D, the filter
\* end > start drops none of them, and the exit "No valid segments to keep
\* after removal!" is not reached.
C30_KeepRangesValid ==
    /\ pc \in AfterKeep =>
         \A i \in 1..Len(keep_segments) :
             /\ 0 <= keep_segments[i][1]
             /\ keep_segments[i][1] < keep_segments[i][2]
             /\ keep_segments[i][2] <= video_duration
    /\ pc \in {"exit_no_clips", "concatenate"} => clips = keep_segments
    /\ pc # "exit_no_clips"

\* C30 witness: the remove row 0:01 to 2 of an EDL was accepted for a video
\* of 2 seconds, and the one keep range 0 to 1 became the one clip.
C30_Witness ==
    /\ pc = "concatenate"
    /\ rows # <<>>
    /\ marked = <<<<1, 2>>>>
    /\ keep_segments = <<<<0, 1>>>>
    /\ clips = keep_segments

====
